---------------------------- MODULE Spec2Model ----------------------------
(***************************************************************************)
(* The PNL-COO analysis engine (app/services/analyze.py): the evidence-    *)
(* first extraction pipeline analyze_file and its process-wide cache       *)
(* analyze_file_cached, as a state machine.                                *)
(*                                                                         *)
(* Conventions.                                                            *)
(*  - A Python str that the code inspects is a sequence of characters;     *)
(*    a character is a one-letter string, and a CJK character is the       *)
(*    string "uXXXX" of its code point.  Labels that are only output are   *)
(*    plain strings.                                                       *)
(*  - An Optional value is a sequence of length 0 (None) or 1.             *)
(*  - Row and column indices are 0-based, as in the code; the cell (r, c)  *)
(*    of a grid g is g[r + 1][c + 1].                                      *)
(*  - Cell numbers and times are integers.  Radar scores and confidences   *)
(*    are held in tenths (score 7.5 is 75, confidence 0.2 is 2).  A        *)
(*    quotient is an exact pair [num, den].                                *)
(*  - A callee that can raise returns a record whose field exc is the      *)
(*    exception's type name, NoExc when it returned normally.              *)
(***************************************************************************)
EXTENDS Integers, Sequences, FiniteSets, TLC

None == <<>>
Some(v) == <<v>>
IsNone(o) == o = <<>>
Val(o) == o[1]

NoExc == "none"

Min(a, b) == IF a <= b THEN a ELSE b
Abs(x) == IF x < 0 THEN 0 - x ELSE x

\* 0-based half-open integer range, Python's range(a, b)
Range(a, b) == { i \in a .. (b - 1) : TRUE }

-----------------------------------------------------------------------------
(* Text primitives                                                         *)

UpperLetters == <<"A", "B", "C", "D", "E", "F", "G", "H", "I", "J", "K", "L", "M",
                  "N", "O", "P", "Q", "R", "S", "T", "U", "V", "W", "X", "Y", "Z">>
LowerLetters == <<"a", "b", "c", "d", "e", "f", "g", "h", "i", "j", "k", "l", "m",
                  "n", "o", "p", "q", "r", "s", "t", "u", "v", "w", "x", "y", "z">>
Digits == <<"0", "1", "2", "3", "4", "5", "6", "7", "8", "9">>
Whitespace == {" ", "\t", "\n"}

IsDigit(ch) == \E i \in 1 .. 10 : Digits[i] = ch
DigitVal(ch) == (CHOOSE i \in 1 .. 10 : Digits[i] = ch) - 1

\* str.lower() on one character
LowerChar(ch) ==
    IF \E i \in 1 .. 26 : UpperLetters[i] = ch
    THEN LowerLetters[CHOOSE i \in 1 .. 26 : UpperLetters[i] = ch]
    ELSE ch

\* s with the characters of drop removed
RECURSIVE Without(_, _)
Without(s, drop) ==
    IF s = <<>> THEN <<>>
    ELSE IF Head(s) \in drop THEN Without(Tail(s), drop)
         ELSE <<Head(s)>> \o Without(Tail(s), drop)

\* str.strip()
RECURSIVE LStrip(_)
LStrip(s) == IF s # <<>> /\ Head(s) \in Whitespace THEN LStrip(Tail(s)) ELSE s
RECURSIVE RStrip(_)
RStrip(s) ==
    IF s # <<>> /\ s[Len(s)] \in Whitespace THEN RStrip(SubSeq(s, 1, Len(s) - 1)) ELSE s
Strip(s) == RStrip(LStrip(s))

\* k == s[i : i + len(k)], i 1-based
MatchAt(s, k, i) ==
    /\ i + Len(k) - 1 <= Len(s)
    /\ \A j \in 1 .. Len(k) : s[i + j - 1] = k[j]
\* k in s
Contains(s, k) == \E i \in 1 .. (Len(s) + 1) : MatchAt(s, k, i)

\* re.sub(r"\s+", "", str(s or "")).lower()
_norm(s) ==
    LET Lower(x) == [i \in 1 .. Len(x) |-> LowerChar(x[i])]
    IN Lower(Without(s, Whitespace))

\* the column letters of the 1-based column number x: the while loop of _a1
RECURSIVE ColLetters(_)
ColLetters(x) ==
    IF x = 0 THEN <<>>
    ELSE ColLetters((x - 1) \div 26) \o <<UpperLetters[((x - 1) % 26) + 1]>>

\* f"{sheet}!{col}{r+1}", kept as its three parts; r and c are 0-based
_a1(sheet, r, c) == [sheet |-> sheet, col |-> ColLetters(c + 1), row |-> r + 1]

-----------------------------------------------------------------------------
(* Cells and sheets                                                        *)

\* A DataFrame cell read with header=None: empty (NaN), a number, or text.
NaN == [t |-> "nan", s |-> <<>>, n |-> 0]
Num(n) == [t |-> "num", s |-> <<>>, n |-> n]
Str(s) == [t |-> "str", s |-> s, n |-> 0]

\* val is None or (isinstance(val, float) and pd.isna(val))
IsNull(cell) == cell.t = "nan"

\* the value of a string of decimal digits
RECURSIVE DigitsValue(_)
DigitsValue(s) ==
    IF s = <<>> THEN 0 ELSE DigitsValue(SubSeq(s, 1, Len(s) - 1)) * 10 + DigitVal(s[Len(s)])

\* float(t) for the texts of the model's sheets: an optionally signed string of
\* digits parses, any other text raises ValueError, which _to_float turns to None.
ParseFloat(t) ==
    LET body == IF t # <<>> /\ Head(t) \in {"-", "+"} THEN Tail(t) ELSE t IN
    IF body # <<>> /\ \A i \in 1 .. Len(body) : IsDigit(body[i])
    THEN Some(IF t[1] = "-" THEN 0 - DigitsValue(body) ELSE DigitsValue(body))
    ELSE None

_to_float(x) ==
    CASE x.t = "nan" -> None
      [] x.t = "num" -> Some(x.n)
      [] x.t = "str" ->
           LET t == Without(Strip(x.s), {","}) IN
           IF t = <<>> THEN None ELSE ParseFloat(t)

\* df.shape, df.iat[r, c] and df.empty of a grid (a sequence of equal-length rows)
NRows(df) == Len(df)
NCols(df) == IF Len(df) = 0 THEN 0 ELSE Len(df[1])
Iat(df, r, c) == df[r + 1][c + 1]
IsEmptyDf(df) == NRows(df) = 0 \/ NCols(df) = 0

-----------------------------------------------------------------------------
(* Exact quotients, for the two float divisions of the pipeline            *)

RECURSIVE Gcd(_, _)
Gcd(a, b) == IF b = 0 THEN a ELSE Gcd(b, a % b)

\* the quotient n / d in lowest terms with a positive denominator, d # 0
Q(n, d) ==
    LET g == Gcd(Abs(n), Abs(d))
        s == IF d < 0 THEN 0 - 1 ELSE 1
    IN [num |-> s * (n \div g), den |-> Abs(d) \div g]
QInt(n) == [num |-> n, den |-> 1]
QSub(a, b) == Q(a.num * b.den - b.num * a.den, a.den * b.den)
QDiv(a, b) == Q(a.num * b.den, a.den * b.num)
QMul(a, n) == Q(a.num * n, a.den)
QAbs(a) == [num |-> Abs(a.num), den |-> a.den]
QIsZero(a) == a.num = 0
\* a >= n / d for integers n and d > 0
QGe(a, n, d) == a.num * d >= n * a.den
\* a > b
QGt(a, b) == a.num * b.den > b.num * a.den

-----------------------------------------------------------------------------
(* Extraction: keyword tables                                              *)

\* The keys of _IS_KEYS in the dict's insertion order, which is the order
\* _extract_is_metrics walks them in.
IsKeyOrder == <<"revenue", "gross_profit", "opex", "net_income", "gross_margin">>

_IS_KEYS(key) ==
    CASE key = "revenue" ->
           <<<<"u71df", "u696d", "u6536", "u5165">>,
             <<"r", "e", "v", "e", "n", "u", "e">>,
             <<"t", "o", "t", "a", "l", " ", "r", "e", "v", "e", "n", "u", "e">>,
             <<"n", "e", "t", " ", "s", "a", "l", "e", "s">>,
             <<"s", "a", "l", "e", "s">>>>
      [] key = "gross_profit" ->
           <<<<"u71df", "u696d", "u6bdb", "u5229">>,
             <<"g", "r", "o", "s", "s", " ", "p", "r", "o", "f", "i", "t">>>>
      [] key = "opex" ->
           <<<<"u71df", "u696d", "u8cbb", "u7528">>,
             <<"o", "p", "e", "r", "a", "t", "i", "n", "g", " ", "e", "x", "p", "e", "n", "s", "e">>,
             <<"o", "p", "e", "r", "a", "t", "i", "n", "g", " ", "e", "x", "p", "e", "n", "s", "e", "s">>,
             <<"o", "p", "e", "x">>>>
      [] key = "net_income" ->
           <<<<"u672c", "u671f", "u6de8", "u5229">>,
             <<"n", "e", "t", " ", "i", "n", "c", "o", "m", "e">>,
             <<"u7a05", "u5f8c", "u6de8", "u5229">>,
             <<"n", "e", "t", " ", "p", "r", "o", "f", "i", "t">>>>
      [] key = "gross_margin" ->
           <<<<"u6bdb", "u5229", "u7387">>,
             <<"g", "r", "o", "s", "s", " ", "m", "a", "r", "g", "i", "n">>,
             <<"g", "r", "o", "s", "s", " ", "p", "r", "o", "f", "i", "t", " ", "m", "a", "r", "g", "i", "n">>>>

\* Defined by the module and passed to no call: _extract_is_metrics calls
\* _find_row(df, kws), so forbid is always the empty list.
_FORBID_TOKENS(key) ==
    CASE key = "gross_profit" ->
           <<<<"m", "a", "r", "g", "i", "n">>, <<"%">>, <<"u7387">>, <<"u6bdb", "u5229", "u7387">>>>
      [] key = "net_income" ->
           <<<<"m", "a", "r", "g", "i", "n">>, <<"%">>, <<"u7387">>, <<"u6de8", "u5229", "u7387">>>>
      [] OTHER -> <<>>

LabelEn(key) ==
    CASE key = "revenue" -> "Revenue"
      [] key = "gross_profit" -> "Gross Profit"
      [] key = "opex" -> "OPEX"
      [] key = "net_income" -> "Net Profit"
      [] key = "gross_margin" -> "Gross Margin %"
LabelZh(key) ==
    CASE key = "revenue" -> "u71df u6536"
      [] key = "gross_profit" -> "u6bdb u5229"
      [] key = "opex" -> "u71df u696d u8cbb u7528"
      [] key = "net_income" -> "u6de8 u5229"
      [] key = "gross_margin" -> "u6bdb u5229 u7387 %"
\* key.replace('_', ' ').title(), the label of a metric whose row is missing
TitleOf(key) ==
    CASE key = "revenue" -> "Revenue"
      [] key = "gross_profit" -> "Gross Profit"
      [] key = "opex" -> "Opex"
      [] key = "net_income" -> "Net Income"
      [] key = "gross_margin" -> "Gross Margin"

\* the dataclass Metric
Metric(key, label_en, label_zh, value, prev, unit, anchor) ==
    [key |-> key, label_en |-> label_en, label_zh |-> label_zh, value |-> value,
     prev |-> prev, unit |-> unit, anchor |-> anchor]

\* Metric.delta_pct, in percent
delta_pct(m) ==
    IF IsNone(m.value) \/ IsNone(m.prev) \/ QIsZero(Val(m.prev)) THEN None
    ELSE Some(QMul(QDiv(QSub(Val(m.value), Val(m.prev)), QAbs(Val(m.prev))), 100))

\* An entry of the evidence ledger.  A key the dict does not hold and a key
\* holding None both read as None.
Evidence(metric, sheet, anchor, derived, current, previous) ==
    [metric |-> metric, sheet |-> sheet, anchor |-> anchor, derived |-> derived,
     current |-> current, previous |-> previous]

-----------------------------------------------------------------------------
(* Row locator                                                             *)

\* _find_row calls _norm_text, a name that no module of the repository binds:
\* evaluating the call raises NameError.
_norm_text(s) == [exc |-> "NameError", val |-> <<>>]

\* the score of one keyword k against the cell text s, None when k does not match
KeywordScore(s, k, forbid) ==
    LET Penalised(base, hits) == IF base = 0 THEN None ELSE Some(base - 40 * hits)
    IN Penalised(IF s = k THEN 100
                 ELSE IF MatchAt(s, k, 1) THEN 90
                 ELSE IF Contains(s, k) THEN 60
                 ELSE 0,
                 Cardinality({i \in 1 .. Len(forbid) :
                                 /\ _norm_text(forbid[i]).val # <<>>
                                 /\ Contains(s, _norm_text(forbid[i]).val)}))

\* score_here of one cell: the best score over the keywords that match
CellScore(s, keywords, forbid) ==
    LET BestOf(scores) ==
            IF scores = {} THEN None ELSE Some(CHOOSE x \in scores : \A y \in scores : y <= x)
    IN BestOf({ Val(sc) : sc \in { KeywordScore(s, _norm_text(keywords[i]).val, forbid) :
                                     i \in { j \in 1 .. Len(keywords) : _norm_text(keywords[j]).val # <<>> } }
                                  \ {None} })

\* the label cells in scan order: every row, the first min(6, ncols) columns
LabelWidth == 6
LabelCells(df) ==
    LET Cells(w) == [i \in 1 .. (NRows(df) * w) |-> [r |-> (i - 1) \div w, c |-> (i - 1) % w]]
    IN Cells(Min(LabelWidth, NCols(df)))

\* what the cell val of row r does to best = (score, row): [exc, best]
FindRowCell(val, r, keywords, forbid, best) ==
    LET Scored(score_here) ==
            [exc |-> NoExc,
             best |-> IF ~IsNone(score_here) /\ Val(score_here) > best.score
                      THEN [score |-> Val(score_here), row |-> Some(r)]
                      ELSE best]
        Text(s) ==
            IF s.exc # NoExc THEN [exc |-> s.exc, best |-> best]
            ELSE IF s.val = <<>> THEN [exc |-> NoExc, best |-> best]
            ELSE Scored(CellScore(s.val, keywords, forbid))
    IN IF IsNull(val) THEN [exc |-> NoExc, best |-> best] ELSE Text(_norm_text(val))

\* the loop of _find_row over cells from cell i on, st = [exc, best] so far
RECURSIVE FindRowLoop(_, _, _, _, _, _)
FindRowLoop(df, keywords, forbid, cells, i, st) ==
    IF i > Len(cells) \/ st.exc # NoExc THEN st
    ELSE FindRowLoop(df, keywords, forbid, cells, i + 1,
                     FindRowCell(Iat(df, cells[i].r, cells[i].c), cells[i].r, keywords, forbid, st.best))

AcceptScore == 50

\* [exc, row]: the row index or None, or the exception raised
_find_row(df, keywords, forbid) ==
    LET Accepted(res) ==
            IF res.exc # NoExc THEN [exc |-> res.exc, row |-> None]
            ELSE IF IsNone(res.best.row) \/ res.best.score < AcceptScore
                 THEN [exc |-> NoExc, row |-> None]
            ELSE [exc |-> NoExc, row |-> res.best.row]
    IN Accepted(FindRowLoop(df, keywords, forbid, LabelCells(df), 1,
                            [exc |-> NoExc, best |-> [score |-> 0 - 1000000000, row |-> None]]))

\* the scan with the columns taken from the left
_find_numeric_in_row_from_left(df, r) ==
    LET RECURSIVE Scan(_, _)
        Scan(c, nums) ==
            IF c >= NCols(df) \/ Len(nums) >= 2 THEN nums
            ELSE IF IsNone(_to_float(Iat(df, r, c))) THEN Scan(c + 1, nums)
            ELSE Scan(c + 1, Append(nums, [v |-> _to_float(Iat(df, r, c)), c |-> c]))
        Of(nums) ==
            [curr |-> IF Len(nums) > 0 THEN nums[1].v ELSE None,
             curr_c |-> IF Len(nums) > 0 THEN Some(nums[1].c) ELSE None,
             prev |-> IF Len(nums) > 1 THEN nums[2].v ELSE None,
             prev_c |-> IF Len(nums) > 1 THEN Some(nums[2].c) ELSE None]
    IN Of(Scan(0, <<>>))

\* (curr, curr_c, prev, prev_c): row r scanned from its last column to its
\* first, up to the second numeric cell
_find_numeric_in_row(df, r) ==
    LET RECURSIVE Scan(_, _)
        Scan(c, nums) ==
            IF c < 0 \/ Len(nums) >= 2 THEN nums
            ELSE IF IsNone(_to_float(Iat(df, r, c))) THEN Scan(c - 1, nums)
            ELSE Scan(c - 1, Append(nums, [v |-> _to_float(Iat(df, r, c)), c |-> c]))
        Of(nums) ==
            [curr |-> IF Len(nums) > 0 THEN nums[1].v ELSE None,
             curr_c |-> IF Len(nums) > 0 THEN Some(nums[1].c) ELSE None,
             prev |-> IF Len(nums) > 1 THEN nums[2].v ELSE None,
             prev_c |-> IF Len(nums) > 1 THEN Some(nums[2].c) ELSE None]
    IN Of(Scan(NCols(df) - 1, <<>>))

-----------------------------------------------------------------------------
(* Metric extractor and derivation resolver                                *)

\* A workbook as _read_all_sheets sees it: sheets is the dict name -> DataFrame
\* in insertion order, a sequence of [name, df].

\* the least index of a set of indices
FirstOf(idx) == CHOOSE i \in idx : \A j \in idx : i <= j

\* the index in sheets of the income-statement sheet: the first whose name
\* matches, else the first sheet (sheets is not empty)
ChooseIsSheet(sheets) ==
    LET IsSheetName(name) ==
            \/ Contains(name, <<"T", "W", "N", "_", "I", "S">>)
            \/ name = <<"I", "S">>
            \/ Contains(name, <<"u640d", "u76ca">>)
        Among(named) == IF named = {} THEN 1 ELSE FirstOf(named)
    IN Among({ i \in 1 .. Len(sheets) : IsSheetName(sheets[i].name) })

OptQ(o) == IF IsNone(o) THEN None ELSE Some(QInt(Val(o)))

\* One pass of the loop over _IS_KEYS for a key whose _find_row returned row:
\* what it appends to metrics, evidence and missing.
IsKeyStep(sheet, key, row) ==
    LET Entry(curr, prev, anchor) ==
            [metrics |-> <<Metric(key, LabelEn(key), LabelZh(key), curr, prev,
                                  IF key = "gross_margin" THEN "%" ELSE "NTD", anchor)>>,
             evidence |-> <<Evidence(key, Some(sheet.name), anchor, None, curr, prev)>>,
             missing |-> <<>>]
        Found(r, f) ==
            Entry(OptQ(f.curr), OptQ(f.prev),
                  IF ~IsNone(f.curr_c) THEN Some(_a1(sheet.name, r, Val(f.curr_c))) ELSE None)
    IN IF IsNone(row)
       THEN [metrics |-> <<Metric(key, TitleOf(key), key, None, None, "", None)>>,
             evidence |-> <<>>,
             missing |-> <<"IS_ROW_MISSING::" \o key>>]
       ELSE Found(Val(row), _find_numeric_in_row(sheet.df, Val(row)))

RECURSIVE IsKeyLoop(_, _, _)
IsKeyLoop(sheet, rows, i) ==
    LET Joined(here, rest) ==
            [metrics |-> here.metrics \o rest.metrics,
             evidence |-> here.evidence \o rest.evidence,
             missing |-> here.missing \o rest.missing]
    IN IF i > Len(IsKeyOrder) THEN [metrics |-> <<>>, evidence |-> <<>>, missing |-> <<>>]
       ELSE Joined(IsKeyStep(sheet, IsKeyOrder[i], rows[i].row), IsKeyLoop(sheet, rows, i + 1))

\* next((m.value for m in metrics if m.key == key), None)
FirstValue(metrics, key) ==
    LET Among(idx) == IF idx = {} THEN None ELSE metrics[FirstOf(idx)].value
    IN Among({ i \in 1 .. Len(metrics) : metrics[i].key = key })

\* lines 404-412: the derived OPEX metric and its evidence, or the gap
DeriveOpex(st) ==
    LET Derived(opex) ==
            [metrics |-> Append(st.metrics,
                            Metric("opex", "Operating Expense", "u71df u696d u8cbb u7528",
                                   Some(opex), None, "NTD", None)),
             evidence |-> Append(st.evidence,
                            Evidence("opex", None, None, Some("gross_profit - opex"),
                                     Some(opex), None)),
             missing |-> st.missing]
        From(gp, oi) ==
            IF ~IsNone(gp) /\ ~IsNone(oi)
            THEN Derived(QSub(Val(gp), Val(oi)))
            ELSE [metrics |-> st.metrics, evidence |-> st.evidence,
                  missing |-> Append(st.missing, "DERIVE_OPEX_MISSING_INPUT")]
    IN From(FirstValue(st.metrics, "gross_profit"), FirstValue(st.metrics, "opex"))

\* the margin computed whether or not the sheet gave one
DeriveMarginAlways(st, gp) ==
    LET Derived(g, v) ==
            [metrics |-> [st.metrics EXCEPT ![g].value = Some(v)],
             evidence |-> Append(st.evidence,
                            Evidence("gross_margin", None, None, Some("gross_profit / revenue"),
                                     Some(v), None)),
             missing |-> st.missing]
        From(margins, rev) ==
            IF /\ margins # {}
               /\ ~IsNone(rev) /\ ~QIsZero(Val(rev))
               /\ ~IsNone(gp)
            THEN Derived(FirstOf(margins), QMul(QDiv(Val(gp), Val(rev)), 100))
            ELSE st
    IN From({ i \in 1 .. Len(st.metrics) : st.metrics[i].key = "gross_margin" },
            FirstValue(st.metrics, "revenue"))

\* lines 414-419: gross margin filled in place when it is missing.  gp is the
\* gross profit read at line 405, before the derived metric was appended.
DeriveMargin(st, gp) ==
    LET Derived(g, v) ==
            [metrics |-> [st.metrics EXCEPT ![g].value = Some(v)],
             evidence |-> Append(st.evidence,
                            Evidence("gross_margin", None, None, Some("gross_profit / revenue"),
                                     Some(v), None)),
             missing |-> st.missing]
        From(margins, rev) ==
            IF /\ margins # {}
               /\ IsNone(st.metrics[FirstOf(margins)].value)
               /\ ~IsNone(rev) /\ ~QIsZero(Val(rev))
               /\ ~IsNone(gp)
            THEN Derived(FirstOf(margins), QMul(QDiv(Val(gp), Val(rev)), 100))
            ELSE st
    IN From({ i \in 1 .. Len(st.metrics) : st.metrics[i].key = "gross_margin" },
            FirstValue(st.metrics, "revenue"))

\* lines 367-421 once _find_row has returned rows[i].row for key i: the
\* metric and the evidence of each key, then the derivations
ExtractLocated(sheet, rows) ==
    LET Derived(looped) ==
            DeriveMargin(DeriveOpex(looped), FirstValue(looped.metrics, "gross_profit"))
    IN Derived(IsKeyLoop(sheet, rows, 1))

\* the loop over _IS_KEYS of the sheet chosen and the derivations; the first
\* _find_row that raises ends the function
ExtractSheet(sheet) ==
    LET Extracted(done) ==
            [exc |-> NoExc, metrics |-> done.metrics, evidence |-> done.evidence,
             missing |-> done.missing]
        Rows(rows, raised) ==
            IF raised # {}
            THEN [exc |-> rows[FirstOf(raised)].exc, metrics |-> <<>>, evidence |-> <<>>,
                  missing |-> <<>>]
            ELSE Extracted(ExtractLocated(sheet, rows))
        RowsOf(rows) == Rows(rows, { i \in 1 .. Len(rows) : rows[i].exc # NoExc })
    IN RowsOf([i \in 1 .. Len(IsKeyOrder) |-> _find_row(sheet.df, _IS_KEYS(IsKeyOrder[i]), <<>>)])

\* [exc, metrics, evidence, missing]
_extract_is_metrics(sheets, lang) ==
    IF sheets = <<>>
    THEN [exc |-> NoExc, metrics |-> <<>>, evidence |-> <<>>, missing |-> <<"NO_SHEETS">>]
    ELSE ExtractSheet(sheets[ChooseIsSheet(sheets)])

-----------------------------------------------------------------------------
(* Cash-cycle scanner                                                      *)

\* the keyword variants _extract_cash_cycle passes for each KPI
CashKeywords(k) ==
    CASE k = "DSO" -> <<<<"D", "S", "O">>, <<"u61c9", "u6536", "u5929", "u6578">>,
                        <<"u61c9", "u6536", "u5e33", "u6b3e", "u9031", "u8f49", "u5929", "u6578">>>>
      [] k = "DIO" -> <<<<"D", "I", "O">>, <<"u5b58", "u8ca8", "u5929", "u6578">>,
                        <<"u5b58", "u8ca8", "u9031", "u8f49", "u5929", "u6578">>>>
      [] k = "DPO" -> <<<<"D", "P", "O">>, <<"u61c9", "u4ed8", "u5929", "u6578">>,
                        <<"u61c9", "u4ed8", "u5e33", "u6b3e", "u9031", "u8f49", "u5929", "u6578">>>>
      [] k = "CCC" -> <<<<"C", "C", "C">>, <<"u73fe", "u91d1", "u9031", "u8f49">>,
                        <<"u73fe", "u91d1", "u5faa", "u74b0">>>>

\* str(v) of a cell
RECURSIVE DigitsOf(_)
DigitsOf(n) == IF n < 10 THEN <<Digits[n + 1]>> ELSE DigitsOf(n \div 10) \o <<Digits[(n % 10) + 1]>>
CellText(v) ==
    CASE v.t = "str" -> v.s
      [] v.t = "num" -> IF v.n < 0 THEN <<"-">> \o DigitsOf(0 - v.n) ELSE DigitsOf(v.n)
      [] v.t = "nan" -> <<"n", "a", "n">>

\* any(_norm(k) in ns for k in keyword_variants), ns = _norm(str(v))
LabelMatches(v, keyword_variants) ==
    LET In(ns) == \E i \in 1 .. Len(keyword_variants) : Contains(ns, _norm(keyword_variants[i]))
    IN In(_norm(CellText(v)))

SearchSpan == 8

\* the numeric cell found for a label at (r, c): right along the row over
\* range(c + 1, min(ncols, c + 8)), then down the column over
\* range(r + 1, min(nrows, r + 8)); None when neither holds a number
LookRightThenDown(sheet, r, c) ==
    LET FoundAt(rr, cc) ==
            Some([num |-> Val(_to_float(Iat(sheet.df, rr, cc))), anchor |-> _a1(sheet.name, rr, cc)])
        Among(right, down) ==
            IF right # {} THEN FoundAt(r, FirstOf(right))
            ELSE IF down # {} THEN FoundAt(FirstOf(down), c)
            ELSE None
    IN Among({ cc \in Range(c + 1, Min(NCols(sheet.df), c + SearchSpan)) :
                 ~IsNone(_to_float(Iat(sheet.df, r, cc))) },
             { rr \in Range(r + 1, Min(NRows(sheet.df), r + SearchSpan)) :
                 ~IsNone(_to_float(Iat(sheet.df, rr, c))) })

\* the scan from sheet si, cell number i (row-major) on
RECURSIVE ScanLoop(_, _, _, _)
ScanLoop(sheets, keyword_variants, si, i) ==
    LET Cell(sheet, r, c, v) ==
            IF ~IsNull(v) /\ LabelMatches(v, keyword_variants)
            THEN LookRightThenDown(sheet, r, c) ELSE None
        At(sheet, r, c) == Cell(sheet, r, c, Iat(sheet.df, r, c))
        Go(found) ==
            IF ~IsNone(found)
            THEN [num |-> Some(Val(found).num), anchor |-> Some(Val(found).anchor)]
            ELSE ScanLoop(sheets, keyword_variants, si, i + 1)
        Sheet(sheet, w) ==
            IF IsEmptyDf(sheet.df) \/ i > NRows(sheet.df) * w
            THEN ScanLoop(sheets, keyword_variants, si + 1, 1)
            ELSE Go(At(sheet, (i - 1) \div w, (i - 1) % w))
    IN IF si > Len(sheets) THEN [num |-> None, anchor |-> None]
       ELSE Sheet(sheets[si], NCols(sheets[si].df))

\* (value, anchor) of the first label that has a number beside or below it
_scan_kpi_by_keywords(sheets, keyword_variants) == ScanLoop(sheets, keyword_variants, 1, 1)

\* the closure add of _extract_cash_cycle
\* the evidence entry of a cash KPI written without the cell it was read from
CashAddUnanchored(k, f) ==
    IF IsNone(f.num)
    THEN [evidence |-> <<>>, missing |-> <<"MISSING::" \o k>>]
    ELSE [evidence |-> <<Evidence(k, None, None, None, OptQ(f.num), None)>>, missing |-> <<>>]

CashAdd(k, f) ==
    IF IsNone(f.num)
    THEN [evidence |-> <<>>, missing |-> <<"MISSING::" \o k>>]
    ELSE [evidence |-> <<Evidence(k, None, f.anchor, None, OptQ(f.num), None)>>, missing |-> <<>>]

\* [cash, evidence, missing]
_extract_cash_cycle(sheets) ==
    LET Join(cash, a, b, c, d) ==
            [cash |-> cash,
             evidence |-> a.evidence \o b.evidence \o c.evidence \o d.evidence,
             missing |-> a.missing \o b.missing \o c.missing \o d.missing]
        From(dso, dio, dpo, ccc) ==
            Join([dso |-> OptQ(dso.num), dio |-> OptQ(dio.num), dpo |-> OptQ(dpo.num),
                  ccc |-> OptQ(ccc.num),
                  anchors |-> [dso |-> dso.anchor, dio |-> dio.anchor, dpo |-> dpo.anchor,
                               ccc |-> ccc.anchor]],
                 CashAdd("DSO", dso), CashAdd("DIO", dio), CashAdd("DPO", dpo), CashAdd("CCC", ccc))
    IN From(_scan_kpi_by_keywords(sheets, CashKeywords("DSO")),
            _scan_kpi_by_keywords(sheets, CashKeywords("DIO")),
            _scan_kpi_by_keywords(sheets, CashKeywords("DPO")),
            _scan_kpi_by_keywords(sheets, CashKeywords("CCC")))

-----------------------------------------------------------------------------
(* Period detection                                                        *)

\* re.search(r"(20\d{2})[\-/](\d{1,2})", s), as
\* f"{m.group(1)}/{int(m.group(2)):02d}" of the leftmost match, None without one
PeriodIn(s) ==
    LET At(i) ==
            /\ i + 5 <= Len(s)
            /\ s[i] = "2" /\ s[i + 1] = "0" /\ IsDigit(s[i + 2]) /\ IsDigit(s[i + 3])
            /\ s[i + 4] \in {"-", "/"}
            /\ IsDigit(s[i + 5])
        Text(i, two) ==
            Some(SubSeq(s, i, i + 3) \o <<"/">>
                 \o (IF two THEN <<s[i + 5], s[i + 6]>> ELSE <<"0", s[i + 5]>>))
        From(i) == Text(i, i + 6 <= Len(s) /\ IsDigit(s[i + 6]))
        Among(at) == IF at = {} THEN None ELSE From(FirstOf(at))
    IN Among({ i \in 1 .. Len(s) : At(i) })

DefaultPeriod == <<"2", "0", "1", "7", "/", "0", "8">>
PeriodRows == 8
PeriodCols == 12

\* the first match among the cells of the first min(8, nrows) rows and
\* min(12, ncols) columns of df, row by row
PeriodInCells(df) ==
    LET CellPeriod(v) == IF IsNull(v) THEN None ELSE PeriodIn(CellText(v))
        FirstAmong(opts, idx) == IF idx = {} THEN None ELSE opts[FirstOf(idx)]
        FirstSome(opts) == FirstAmong(opts, { i \in 1 .. Len(opts) : ~IsNone(opts[i]) })
        CellsOf(w, n) == FirstSome([i \in 1 .. n |-> CellPeriod(Iat(df, (i - 1) \div w, (i - 1) % w))])
        InColumns(w) == CellsOf(w, Min(PeriodRows, NRows(df)) * w)
    IN InColumns(Min(PeriodCols, NCols(df)))

\* the loop over the sheets from sheet si on: its name, then its cells
RECURSIVE PeriodLoop(_, _)
PeriodLoop(sheets, si) ==
    LET Or(found, otherwise) == IF ~IsNone(found) THEN Val(found) ELSE otherwise
        Sheet(sheet) ==
            Or(PeriodIn(sheet.name),
               IF IsEmptyDf(sheet.df) THEN PeriodLoop(sheets, si + 1)
               ELSE Or(PeriodInCells(sheet.df), PeriodLoop(sheets, si + 1)))
    IN IF si > Len(sheets) THEN DefaultPeriod ELSE Sheet(sheets[si])

_detect_period(sheets) == PeriodLoop(sheets, 1)

-----------------------------------------------------------------------------
(* Radar scoring                                                           *)

\* An entry of the dimension library: a JSON object with the three keys, or
\* some other JSON value (isdict FALSE), on which d.get raises AttributeError.
Dim(id, en, zh) == [isdict |-> TRUE, dim_id |-> id, display_en |-> en, display_zh |-> zh]
NotADict == [isdict |-> FALSE, dim_id |-> "", display_en |-> "", display_zh |-> ""]

\* the hard fallback of _radar_library
FallbackDims ==
    <<Dim("D01", "Revenue Volatility", "u71df u6536 u6ce2 u52d5"),
      Dim("D02", "Gross Margin Drift", "u6bdb u5229 u7387 u6f02 u79fb"),
      Dim("D03", "OPEX Creep", "u8cbb u7528 u81a8 u8139"),
      Dim("D04", "Operating Profit Stability", "u71df u696d u8cbb u7528 u7a69 u5b9a"),
      Dim("D05", "Cash Conversion Cycle", "CCC u73fe u91d1 u5faa u74b0"),
      Dim("D06", "Working Capital Stress", "u71df u904b u8cc7 u91d1 u58d3 u529b"),
      Dim("D07", "Customer Concentration", "u5ba2 u6236 u96c6 u4e2d"),
      Dim("D08", "Inventory Risk", "u5b58 u8ca8 u98a8 u96aa")>>

\* lib is the library file: [present, entries].  An absent or unparsable file
\* gives the fallback; a JSON list is returned as it is.
_radar_library(lib) == IF lib.present THEN lib.entries ELSE FallbackDims

RadarDims == 8
\* s[:n]
Prefix(s, n) == SubSeq(s, 1, Min(n, Len(s)))

\* the loop over lib = _radar_library()[:8] that builds the signals from the
\* list s of (score, confidence, evidence): [exc, signals]
SignalsOf(lib, lang, s) ==
    LET Signal(d, score, confidence, evidence) ==
            [dim_id |-> d.dim_id, label |-> IF lang = "en" THEN d.display_en ELSE d.display_zh,
             score |-> score, confidence |-> confidence, evidence |-> evidence]
        Built(head) ==
            IF \E i \in 1 .. Len(head) : ~head[i].isdict
            THEN [exc |-> "AttributeError", signals |-> <<>>]
            ELSE [exc |-> NoExc,
                  signals |-> [i \in 1 .. Len(head) |-> Signal(head[i], s[i][1], s[i][2], s[i][3])]]
    IN Built(Prefix(_radar_library(lib), RadarDims))

NeutralScore == 50
NeutralConf == 2

\* [exc, signals]
_default_radar(lib, lang) ==
    SignalsOf(lib, lang, [i \in 1 .. RadarDims |-> <<NeutralScore, NeutralConf, "fallback">>])

\* drift_score: (score, confidence) of a delta in percent
drift_score(dp, worse_if_abs_gt) ==
    LET OfAbs(a) ==
            IF QGe(a, 30, 1) THEN <<90, 8>>
            ELSE IF QGe(a, worse_if_abs_gt, 1) THEN <<75, 7>>
            ELSE IF QGe(a, 5, 1) THEN <<60, 6>>
            ELSE <<40, 6>>
    IN IF IsNone(dp) THEN <<50, 2>> ELSE OfAbs(QAbs(Val(dp)))

\* m_by.get(key): the last metric of that key, None without one
LastMetric(metrics, key) ==
    LET Among(idx) ==
            IF idx = {} THEN None ELSE Some(metrics[CHOOSE i \in idx : \A j \in idx : j <= i])
    IN Among({ i \in 1 .. Len(metrics) : metrics[i].key = key })

\* the list s of (score, confidence, evidence), one per dimension
RadarScores(metrics, cash) ==
    LET Tagged(d, tag) == <<d[1], d[2], tag>>
        DeltaOf(om) == IF IsNone(om) THEN None ELSE delta_pct(Val(om))
        DriftSignal(om, worse_if_abs_gt, tag) ==
            Tagged(drift_score(DeltaOf(om), worse_if_abs_gt), tag)
        RatioSignal(ratio) ==
            <<IF QGe(ratio, 35, 100) THEN 75 ELSE IF QGe(ratio, 25, 100) THEN 65 ELSE 45,
              6, "opex/rev">>
        OpexSignal(opex, rev) ==
            IF /\ ~IsNone(opex) /\ ~IsNone(rev)
               /\ ~IsNone(Val(opex).value) /\ ~IsNone(Val(rev).value)
               /\ ~QIsZero(Val(Val(rev).value))
            THEN RatioSignal(QDiv(Val(Val(opex).value), QAbs(Val(Val(rev).value))))
            ELSE <<50, 2, "missing">>
        LevelScore(x, lo, hi) ==
            IF ~QGt(x, QInt(lo)) THEN 40 ELSE IF ~QGt(x, QInt(hi)) THEN 65 ELSE 85
        LevelSignal(level, lo, hi, tag) ==
            IF IsNone(level) THEN <<50, 2, "missing">>
            ELSE <<LevelScore(Val(level), lo, hi), 6, tag>>
        Of(rev, gm, oi, opex) ==
            <<DriftSignal(rev, 10, "rev.delta"), DriftSignal(gm, 3, "gm.delta"),
              OpexSignal(opex, rev), DriftSignal(oi, 10, "oi.delta"),
              LevelSignal(cash.ccc, 60, 120, "ccc.level"),
              LevelSignal(cash.dso, 45, 75, "dso.level"),
              <<50, 2, "not_available">>, <<50, 2, "not_available">>>>
    IN Of(LastMetric(metrics, "revenue"), LastMetric(metrics, "gross_margin"),
          LastMetric(metrics, "opex"), LastMetric(metrics, "opex"))

\* [exc, signals]
_build_radar_signals(lib, metrics, cash, lang) == SignalsOf(lib, lang, RadarScores(metrics, cash))

-----------------------------------------------------------------------------
(* Result assembly                                                         *)

\* An entry of the mapping backlog; a gap carries no detail.
Gap(code) == [type |-> "MAPPING_GAP", code |-> code, detail |-> "", status |-> "OPEN"]
SystemError(exc) == [type |-> "SYSTEM_ERROR", code |-> exc.type, detail |-> exc.msg, status |-> "OPEN"]

\* type(e).__name__ and str(e) of the exceptions the pipeline raises
ExcOf(name) ==
    CASE name = "NameError" -> [type |-> name, msg |-> "name '_norm_text' is not defined"]
      [] name = "AttributeError" -> [type |-> name, msg |-> "'int' object has no attribute 'get'"]
      [] OTHER -> [type |-> name, msg |-> ""]

\* one entry of the KPI payload; delta_pct is the fraction dp / 100
Kpi(m, lang) ==
    LET Of(dp) ==
    [label |-> IF lang = "en" THEN m.label_en ELSE m.label_zh,
     value |-> m.value,
     unit |-> IF m.key = "gross_margin" THEN "%" ELSE "NTD",
     delta_pct |-> IF IsNone(dp) THEN None ELSE Some(Q(Val(dp).num, Val(dp).den * 100)),
     anchor |-> m.anchor,
     canonical_metric_id |-> m.key]
    IN Of(delta_pct(m))

KpiKeys == {"gross_margin", "revenue", "gross_profit", "opex", "net_income"}

RECURSIVE SelectSeq2(_, _)
SelectSeq2(s, keep) ==
    IF s = <<>> THEN <<>>
    ELSE IF Head(s) \in keep THEN <<Head(s)>> \o SelectSeq2(Tail(s), keep)
         ELSE SelectSeq2(Tail(s), keep)

BuildKpis(metrics, lang) ==
    LET Of(kept) == [i \in 1 .. Len(kept) |-> Kpi(kept[i], lang)]
    IN Of(SelectSeq2(metrics, { m \in { metrics[i] : i \in 1 .. Len(metrics) } : m.key \in KpiKeys }))

\* list.sort(key = k, reverse = True) followed by [:n]: the n items of greatest
\* k, equal keys in their original order.  Each item holds its key k, a quotient.
\* sorted(items, key, reverse=True)[:n]: the sort is stable, so among equal
\* keys the earlier item comes first
DropAt(items, i) == [j \in 1 .. (Len(items) - 1) |-> items[IF j < i THEN j ELSE j + 1]]
RECURSIVE TopDesc(_, _)
TopDesc(items, n) ==
    LET From(i) == <<items[i]>> \o TopDesc(DropAt(items, i), n - 1)
    IN IF n = 0 \/ items = <<>> THEN <<>>
       ELSE From(CHOOSE x \in 1 .. Len(items) :
                    /\ \A y \in 1 .. Len(items) : ~QGt(items[y].k, items[x].k)
                    /\ \A y \in 1 .. (x - 1) : QGt(items[x].k, items[y].k))

LensKeys == <<"cycle", "terms", "mode", "hold">>
NoFilter == "<None>"
\* v is None or str(v).strip() == ""
IsBlankFilter(v) == v \in {NoFilter, "", " "}

\* _lens_line, kept as the parts it joins
_lens_line(lens) ==
    LET Parts(parts) ==
            SelectSeq2(parts, { parts[i] : i \in { j \in 1 .. 4 : ~IsBlankFilter(parts[j][2]) } })
    IN Parts([i \in 1 .. 4 |-> <<LensKeys[i], lens[LensKeys[i]]>>])

\* the narrative, kept as the parts the text is joined from
_scoreboard_narrative(kpis, lang, period, lens) ==
    LET Item(k, dp) == [k |-> QAbs(dp), dp |-> dp, label |-> k.label]
        Scored(withDp) == [i \in 1 .. Len(withDp) |-> Item(withDp[i], Val(withDp[i].delta_pct))]
        Of(top) ==
            [lang |-> IF lang = "zh" THEN "zh" ELSE "en",
             period |-> period,
             lens |-> _lens_line(lens),
             top |-> [i \in 1 .. Len(top) |-> [label |-> top[i].label, dp |-> top[i].dp]]]
    IN Of(TopDesc(Scored(SelectSeq2(kpis, { k \in { kpis[i] : i \in 1 .. Len(kpis) } :
                                             ~IsNone(k.delta_pct) })), 2))

NoNarrative ==
    [lang |-> "", period |-> <<>>, lens |-> <<>>, top |-> <<>>]

\* the text is one of three per language; OK and PARTIAL quote the period
_ai_hint(status, lang, period) ==
    [lang |-> IF lang = "zh" THEN "zh" ELSE "en",
     status |-> IF status \in {"OK", "PARTIAL"} THEN status ELSE "other",
     period |-> IF status \in {"OK", "PARTIAL"} THEN period ELSE <<>>]

\* The four cards, each kept as the values its HTML shows.
_cash_cycle_html(cash, lang) ==
    [lang |-> IF lang = "zh" THEN "zh" ELSE "en",
     dso |-> cash.dso, dio |-> cash.dio, dpo |-> cash.dpo, ccc |-> cash.ccc]

EvidenceRows == 30
GapRows == 20
_evidence_pull_html(evidence, backlog, lang) ==
    LET Of(shown, gaps) ==
            [lang |-> IF lang = "zh" THEN "zh" ELSE "en",
             rows |-> [i \in 1 .. Len(shown) |-> [sheet |-> shown[i].sheet, anchor |-> shown[i].anchor]],
             gaps |-> [i \in 1 .. Len(gaps) |-> [type |-> gaps[i].type, code |-> gaps[i].code]]]
    IN Of(Prefix(evidence, EvidenceRows), Prefix(backlog, GapRows))

\* sorted(signals, key=score, reverse=True)[:n]
TopSignals(signals, n) ==
    TopDesc([i \in 1 .. Len(signals) |-> [k |-> QInt(signals[i].score), s |-> signals[i]]], n)

_solution_task_html(signals, backlog, lang) ==
    LET Of(top) ==
            [lang |-> IF lang = "zh" THEN "zh" ELSE "en",
             top |-> [i \in 1 .. Len(top) |-> [dim_id |-> top[i].s.dim_id, conf |-> top[i].s.confidence]],
             gaps |-> top # <<>> /\ \E i \in 1 .. Len(backlog) : backlog[i].type = "MAPPING_GAP"]
    IN Of(TopSignals(signals, 3))

_radar_legend_html(signals, lang) ==
    LET Of(top) ==
            [lang |-> IF lang = "zh" THEN "zh" ELSE "en",
             top |-> [i \in 1 .. Len(top) |-> [dim_id |-> top[i].s.dim_id, score |-> top[i].s.score]]]
    IN Of(TopSignals(signals, 6))

Cards(cash, evidence, backlog, signals, lang) ==
    [cash_cycle |-> _cash_cycle_html(cash, lang),
     evidence_pull |-> _evidence_pull_html(evidence, backlog, lang),
     solution_task_force |-> _solution_task_html(signals, backlog, lang),
     causality_radar |-> _radar_legend_html(signals, lang)]

NoCash == [dso |-> None, dio |-> None, dpo |-> None, ccc |-> None,
           anchors |-> [dso |-> None, dio |-> None, dpo |-> None, ccc |-> None]]

-----------------------------------------------------------------------------
(* analyze_file                                                            *)

\* A file of the upload directory: [exists, mtime, size, wb]; wb is the
\* workbook its bytes hold, [readable, sheets].  pd.read_excel raises on a
\* missing file and on bytes that are no workbook, and _read_all_sheets then
\* returns the empty dict.
_read_all_sheets(disk, file_path) ==
    LET Of(f) == IF f.exists /\ f.wb.readable THEN f.wb.sheets ELSE <<>>
    IN Of(disk[file_path])

\* the result with no system.cache annotation and no governance_intent yet
Result(status, period, filters, system, kpis, narrative, cards, cash, signals, ledger, backlog, hint) ==
    [ok |-> TRUE, status |-> status, period |-> period, filters |-> filters,
     system |-> system, kpis |-> kpis, scoreboard_narrative |-> narrative, cards |-> cards,
     cash_cycle |-> cash, radar_signals |-> signals, evidence_ledger |-> ledger,
     mapping_backlog |-> backlog, ai_hint |-> hint, ai_brief |-> hint,
     governance_intent |-> None]

NoResult == [ok |-> FALSE]

DashPeriod == <<"u2014">>

\* The except branch of analyze_file (lines 805-828) for the exception named
\* exc, with the ledger and backlog as the try block left them.  Building the
\* cards calls _default_radar, and what that raises leaves analyze_file.
Degraded(lib, lang, filters, system, ledger, backlog, exc) ==
    LET With(backlog2, radar) ==
            IF radar.exc # NoExc THEN [exc |-> radar.exc, result |-> NoResult]
            ELSE [exc |-> NoExc,
                  result |-> Result("DEGRADED", DashPeriod, filters, system, <<>>, NoNarrative,
                                    Cards(NoCash, ledger, backlog2, radar.signals, lang),
                                    NoCash, radar.signals, ledger, backlog2,
                                    _ai_hint("DEGRADED", lang, DashPeriod))]
    IN With(Append(backlog, SystemError(ExcOf(exc))), _default_radar(lib, lang))

\* the status with its two branches exchanged
StatusOfInverted(backlog) == IF backlog # <<>> THEN "OK" ELSE "PARTIAL"

\* lines 770-772: the status of a run that raised nothing
StatusOf(backlog) == IF backlog # <<>> THEN "PARTIAL" ELSE "OK"

\* The try block of analyze_file on the sheets read: [exc, result], the dict
\* returned or the exception that leaves analyze_file
AnalyzeSheets(lib, sheets, lang, filters, system) ==
    LET Assemble(status, period, kpis, cash, signals, ledger, backlog) ==
            [exc |-> NoExc,
             result |-> Result(status, period, filters, system, kpis,
                               _scoreboard_narrative(kpis, lang, period, filters),
                               Cards(cash, ledger, backlog, signals, lang),
                               cash, signals, ledger, backlog,
                               _ai_hint(status, lang, period))]
        AfterRadar(ledger, backlog, period, kpis, cash, radar) ==
            IF radar.exc # NoExc
            THEN Degraded(lib, lang, filters, system, ledger, backlog, radar.exc)
            ELSE Assemble(StatusOf(backlog), period, kpis, cash, radar.signals, ledger, backlog)
        Backlog(missing) == [i \in 1 .. Len(missing) |-> Gap(missing[i])]
        AfterCash(is, cc) ==
            AfterRadar(is.evidence \o cc.evidence, Backlog(is.missing \o cc.missing),
                       _detect_period(sheets), BuildKpis(is.metrics, lang), cc.cash,
                       _build_radar_signals(lib, is.metrics, cc.cash, lang))
        AfterExtract(is) ==
            IF is.exc # NoExc THEN Degraded(lib, lang, filters, system, <<>>, <<>>, is.exc)
            ELSE AfterCash(is, _extract_cash_cycle(sheets))
    IN AfterExtract(_extract_is_metrics(sheets, lang))

\* analyze_file with cycle and terms taken for each other
analyze_file_swapped(disk, lib, file_path, lang, prompt, cycle, terms, mode, hold) ==
    LET Of(sheets) ==
            AnalyzeSheets(lib, sheets, lang,
                          [cycle |-> terms, terms |-> cycle, mode |-> mode, hold |-> hold],
                          [file_id |-> file_path,
                           sheets |-> [i \in 1 .. Len(sheets) |-> sheets[i].name],
                           parser |-> "pandas/openpyxl", cache |-> None])
    IN Of(_read_all_sheets(disk, file_path))

analyze_file(disk, lib, file_path, lang, prompt, cycle, terms, mode, hold) ==
    LET Of(sheets) ==
            AnalyzeSheets(lib, sheets, lang,
                          [cycle |-> cycle, terms |-> terms, mode |-> mode, hold |-> hold],
                          [file_id |-> file_path,
                           sheets |-> [i \in 1 .. Len(sheets) |-> sheets[i].name],
                           parser |-> "pandas/openpyxl", cache |-> None])
    IN Of(_read_all_sheets(disk, file_path))

-----------------------------------------------------------------------------
(* The inputs of the model                                                 *)

SheetOf(name, df) == [name |-> name, df |-> df]
Workbook(sheets) == [readable |-> TRUE, sheets |-> sheets]

NameIS == <<"I", "S">>
NameSheet1 == <<"S", "h", "e", "e", "t", "1">>
NameKPI == <<"K", "P", "I">>
TxtRevenue == <<"R", "e", "v", "e", "n", "u", "e">>
TxtDSO == <<"D", "S", "O">>
TxtDIO == <<"D", "I", "O">>
TxtNA == <<"n", "/", "a">>
TxtGrossProfit == <<"G", "r", "o", "s", "s", " ", "P", "r", "o", "f", "i", "t">>
TxtMargin == <<" ", "M", "a", "r", "g", "i", "n">>
TxtOperatingExpenses == <<"O", "p", "e", "r", "a", "t", "i", "n", "g", " ",
                          "E", "x", "p", "e", "n", "s", "e", "s">>
TxtOperatingIncome == <<"O", "p", "e", "r", "a", "t", "i", "n", "g", " ", "I", "n", "c", "o", "m", "e">>
TxtNetIncome == <<"N", "e", "t", " ", "I", "n", "c", "o", "m", "e">>

\* bytes that are no workbook
WbUnreadable == [readable |-> FALSE, sheets |-> <<>>]
\* one sheet with no rows
WbEmpty == Workbook(<<SheetOf(NameSheet1, <<>>)>>)
\* an income statement with its labels in the first column
WbLabels == Workbook(<<SheetOf(NameIS, <<
                <<Str(TxtRevenue), NaN, Num(1000), Num(1200)>> >>)>>)
\* one sheet whose six label columns are empty, a DSO figure to their right
WbWide == Workbook(<<SheetOf(NameSheet1, <<
                <<NaN, NaN, NaN, NaN, NaN, NaN, Str(TxtDSO), Num(45)>> >>)>>)
\* an empty income statement and a KPI sheet: DSO has a figure, DIO has none
WbKpi == Workbook(<<SheetOf(NameIS, <<>>),
                    SheetOf(NameKPI, <<
                <<Str(TxtDSO), Num(45)>>,
                <<Str(TxtDIO), Str(TxtNA)>> >>)>>)

\* one sheet: a DSO label in the first column, and no figure for it
WbDays == Workbook(<<SheetOf(NameSheet1, <<
                <<Str(TxtDSO), Str(TxtNA)>> >>)>>)
\* an income statement with the margin row above the gross profit row
WbMargin == Workbook(<<SheetOf(NameIS, <<
                <<Str(TxtGrossProfit \o TxtMargin), Num(40)>>,
                <<Str(TxtGrossProfit), Num(400)>> >>)>>)

\* the row of revenue figures: a blank cell, last year, this year
WbExample == Workbook(<<SheetOf(NameIS, <<
                <<Str(TxtRevenue), Str(<<>>), Num(1000), Num(1200)>> >>)>>)
\* an income statement with operating expenses and operating income
WbIncome == Workbook(<<SheetOf(NameIS, <<
                <<Str(TxtGrossProfit), Num(380), Num(400)>>,
                <<Str(TxtOperatingExpenses), Num(140), Num(150)>>,
                <<Str(TxtOperatingIncome), Num(240), Num(250)>>,
                <<Str(TxtNetIncome), Str(TxtNA), Str(TxtNA)>> >>)>>)
\* a DSO figure eight cells to the right of its label, a DIO figure seven
\* cells to the right of its label
WbFar == Workbook(<<SheetOf(NameKPI, <<
                <<Str(TxtDSO), Str(TxtNA), Str(TxtNA), Str(TxtNA), Str(TxtNA), Str(TxtNA),
                  Str(TxtNA), Str(TxtNA), Num(45)>>,
                <<Str(TxtDIO), Str(TxtNA), Str(TxtNA), Str(TxtNA), Str(TxtNA), Str(TxtNA),
                  Str(TxtNA), Num(30), Str(TxtNA)>> >>)>>)
\* a DSO label with no figure, then a DSO label with its figure below it and
\* a DIO label with figures beside and below it
WbBelow == Workbook(<<SheetOf(NameKPI, <<
                <<Str(TxtDSO), Str(TxtNA), Str(TxtNA)>>,
                <<Str(TxtNA), Str(TxtDSO), Str(TxtDIO)>>,
                <<Str(TxtNA), Num(50), Num(20)>> >>),
                      SheetOf(NameSheet1, <<
                <<Str(TxtDSO), Num(60)>> >>)>>)
\* an income statement with a revenue of zero and a margin row without a figure
WbZero == Workbook(<<SheetOf(NameIS, <<
                <<Str(TxtRevenue), Num(0)>>,
                <<Str(TxtGrossProfit), Num(400)>>,
                <<Str(TxtGrossProfit \o TxtMargin), Str(TxtNA)>> >>)>>)
\* the workbooks whose rows are given to the metric extractor
LocatedWorkbooks == {WbExample, WbMargin, WbDays, WbIncome, WbZero}

Workbooks == {WbUnreadable, WbEmpty, WbLabels, WbWide, WbKpi, WbDays, WbMargin}

\* the dimension library file: absent, a short list, a list with an entry
\* that is no JSON object
LibAbsent == [present |-> FALSE, entries |-> <<>>]
LibShort == [present |-> TRUE,
             entries |-> <<Dim("D01", "Revenue Volatility", "u71df u6536 u6ce2 u52d5"),
                           Dim("D02", "Gross Margin Drift", "u6bdb u5229 u7387 u6f02 u79fb")>>]
LibMalformed == [present |-> TRUE, entries |-> <<NotADict>>]
LibFiles == {LibAbsent, LibShort, LibMalformed}

\* the arguments of a call: the handler, and what it passes on
Req(handler, lang, prompt, cycle, terms, mode, hold) ==
    [handler |-> handler, file_path |-> "f1", lang |-> lang, prompt |-> prompt,
     cycle |-> cycle, terms |-> terms, mode |-> mode, hold |-> hold]

\* a chart of the defaults, the report of the same arguments, and the requests
\* that differ from the chart in one argument
ReqBase == Req("chart", "en", "", "MOM", "AUTO", "AUTO", "OFF")
ReqReport == Req("report", "en", "", "MOM", "AUTO", "AUTO", "OFF")
ReqLang == Req("chart", "zh", "", "MOM", "AUTO", "AUTO", "OFF")
ReqPrompt == Req("report", "en", "board", "MOM", "AUTO", "AUTO", "OFF")
ReqCycle == Req("chart", "en", "", "YOY", "AUTO", "AUTO", "OFF")
ReqTerms == Req("chart", "en", "", "MOM", "NET30", "AUTO", "OFF")
ReqMode == Req("chart", "en", "", "MOM", "AUTO", "STRICT", "OFF")
ReqHold == Req("chart", "en", "", "MOM", "AUTO", "AUTO", "ON")
\* a report with no filter given, a chart that differs from ReqBase in two arguments
ReqBare == Req("report", "en", "", NoFilter, NoFilter, NoFilter, NoFilter)
ReqZhOn == Req("chart", "zh", "", "MOM", "AUTO", "AUTO", "ON")

Requests == {ReqBase, ReqReport, ReqLang}
KeyRequests == {ReqBase, ReqReport, ReqLang, ReqPrompt, ReqCycle, ReqTerms, ReqMode, ReqHold}
ConcRequests == {ReqBare, ReqZhOn}
WarmRequests == <<ReqBase, ReqLang, ReqPrompt, ReqCycle, ReqTerms, ReqMode, ReqHold>>
AllRequests == KeyRequests \cup ConcRequests

\* The uploaded file over time: each state differs from the one before it in
\* mtime alone, in size alone, or in being there; the file of a given mtime and
\* size has one content.
FileAt(mtime, size, wb) == [exists |-> TRUE, mtime |-> mtime, size |-> size, wb |-> wb]
FileGone == [exists |-> FALSE, mtime |-> 0, size |-> 0, wb |-> WbUnreadable]
FileHistory ==
    <<FileAt(1, 10, WbLabels), FileAt(2, 10, WbWide), FileAt(2, 11, WbKpi), FileGone>>

\* the files of the model: those of the history, and one of each workbook
Files == { FileHistory[i] : i \in 1 .. Len(FileHistory) } \cup { FileAt(1, 10, wb) : wb \in Workbooks }

\* what analyze_file is given besides the path
ArgsOf(a) == [lang |-> a.lang, prompt |-> a.prompt, cycle |-> a.cycle,
              terms |-> a.terms, mode |-> a.mode, hold |-> a.hold]

\* analyze_file is a function of the file, the library and its arguments: its
\* values over the inputs of the model, computed once
AnalyzeTable ==
    [x \in Files \X LibFiles \X { ArgsOf(a) : a \in AllRequests } |->
        analyze_file([f \in {"f1"} |-> x[1]], x[2], "f1", x[3].lang, x[3].prompt,
                     x[3].cycle, x[3].terms, x[3].mode, x[3].hold)] @@ <<>>

-----------------------------------------------------------------------------
(* analyze_file_cached: the cache and the steps of one call                *)

_ANALYSIS_CACHE_TTL_S == 30 * 60
_ANALYSIS_CACHE_MAX == 8

\* str(file_path.resolve()): the absolute path of a file of the upload directory
Resolve(file_path) == "/data/uploads/" \o file_path

\* hashlib.sha1(prompt).hexdigest()[:12] of the prompts of the model
PromptHash(prompt) ==
    CASE prompt = "" -> "da39a3ee5e6b"
      [] prompt = "board" -> "9ea5e97d2f48"

\* keys that leave out one component: the modification time, the size, hold
CacheKeyWithoutMtime(file_path, lang, cycle, terms, mode, hold, prompt, st) ==
    <<Resolve(file_path), lang, cycle, terms, mode, hold, PromptHash(prompt), st.size>>
CacheKeyWithoutSize(file_path, lang, cycle, terms, mode, hold, prompt, st) ==
    <<Resolve(file_path), lang, cycle, terms, mode, hold, PromptHash(prompt), st.mtime>>
CacheKeyWithoutHold(file_path, lang, cycle, terms, mode, hold, prompt, st) ==
    <<Resolve(file_path), lang, cycle, terms, mode, PromptHash(prompt), st.mtime, st.size>>

\* the tuple key of lines 145-155; st is the os.stat_result
CacheKey(file_path, lang, cycle, terms, mode, hold, prompt, st) ==
    <<Resolve(file_path), lang, cycle, terms, mode, hold, PromptHash(prompt), st.mtime, st.size>>

\* _ANALYSIS_CACHE is a dict: a sequence of entries [key, ts, data] in insertion
\* order, one per key.  data is a reference into the heap of dict objects.
CacheIndex(cache, key) ==
    IF \E i \in 1 .. Len(cache) : cache[i].key = key
    THEN Some(CHOOSE i \in 1 .. Len(cache) : cache[i].key = key)
    ELSE None
\* _ANALYSIS_CACHE.get(key)
CacheGet(cache, key) ==
    LET At(i) == IF IsNone(i) THEN None ELSE Some(cache[Val(i)])
    IN At(CacheIndex(cache, key))
\* _ANALYSIS_CACHE.pop(key, None)
CachePop(cache, key) ==
    LET At(i) == IF IsNone(i) THEN cache ELSE DropAt(cache, Val(i))
    IN At(CacheIndex(cache, key))
\* _ANALYSIS_CACHE[key] = entry: in place for a key it holds, else appended
CachePut(cache, entry) ==
    LET At(i) == IF IsNone(i) THEN Append(cache, entry) ELSE [cache EXCEPT ![Val(i)] = entry]
    IN At(CacheIndex(cache, entry.key))

\* the loop of lines 169-175: the key of the first entry of least ts
OldestKey(cache) ==
    IF cache = <<>> THEN None
    ELSE Some(cache[CHOOSE i \in 1 .. Len(cache) :
                       /\ \A j \in 1 .. Len(cache) : cache[i].ts <= cache[j].ts
                       /\ \A j \in 1 .. (i - 1) : cache[j].ts > cache[i].ts].key)

\* an entry still served at the age of the TTL
FreshInclusive(ent, now) == ~IsNone(ent) /\ (now - Val(ent).ts) <= _ANALYSIS_CACHE_TTL_S

\* ent and (now - ts) < TTL
Fresh(ent, now) == ~IsNone(ent) /\ (now - Val(ent).ts) < _ANALYSIS_CACHE_TTL_S

\* The heap of result dicts.  Python makes a new object for the dict analyze_file
\* returns and for each deepcopy; an object is named after the variable that
\* holds it: the out of a caller, or the data of a cache entry.  The name of
\* a variable is free again when the variable is rebound.
OutRef(p) == [var |-> "out", p |-> p, key |-> <<>>]
DataRef(key) == [var |-> "data", p |-> "", key |-> key]

\* no copy made: the same object under its old name
DeepCopyAlias(heap, src, dst) == [heap |-> heap, ref |-> src]

\* copy.deepcopy(heap[src]) bound to the variable dst: [heap, ref]
DeepCopy(heap, src, dst) == [heap |-> (dst :> heap[src]) @@ heap, ref |-> dst]

\* sysd["cache"] = annotation, on the object ref
Annotate(heap, ref, annotation) ==
    [heap EXCEPT ![ref].system.cache = Some(annotation)]

CacheNote(hit, age_s, error) == [hit |-> hit, age_s |-> age_s, error |-> error]

\* os.stat of the file: None when it raises (no such file)
Stat(disk, file_path) ==
    LET Of(f) == IF f.exists THEN Some([mtime |-> f.mtime, size |-> f.size]) ELSE None
    IN Of(disk[file_path])

\* The state of one call: its arguments, its position pc, and its locals.
\* Beside them the call keeps, for the properties: hit, whether an entry was
\* served; computes, the calls of analyze_file made; touched, whether the
\* handler wrote into the dict it was given; ret, the dict as it was returned.
NewCall(p, a) ==
    [p |-> p, handler |-> a.handler, pc |-> "stat", file_path |-> a.file_path, lang |-> a.lang, prompt |-> a.prompt,
     cycle |-> a.cycle, terms |-> a.terms, mode |-> a.mode, hold |-> a.hold,
     st |-> None, key |-> None, now |-> 0, ent |-> None, oldest_k |-> None,
     out |-> None, exc |-> NoExc, hit |-> FALSE, computes |-> 0, touched |-> FALSE,
     ret |-> None]

Idle(p) == [NewCall(p, [handler |-> "", file_path |-> "", lang |-> "", prompt |-> "", cycle |-> "",
                        terms |-> "", mode |-> "", hold |-> ""]) EXCEPT !.pc = "idle"]

\* what identifies a call: its path, arguments, and the stat of the file
Ident(l) == <<l.file_path, l.lang, l.prompt, l.cycle, l.terms, l.mode, l.hold, l.st>>

\* return out: the call ends with the dict out refers to
Returned(g, l) == [g |-> g, l |-> [l EXCEPT !.pc = "returned", !.ret = Some(g.heap[Val(l.out)])]]

\* the call of analyze_file at lines 165 and 186, read from the table of its values
Direct(env, l) == AnalyzeTable[<<env.disk[l.file_path], env.lib, ArgsOf(l)>>]

\* Each step takes the environment env = [disk, lib, now], the shared state
\* g = [cache, heap] and the call l, and gives the g and l after it.

\* lines 143-156: stat, key, now
StepStat(env, g, l) ==
    LET Keyed(st) ==
            IF IsNone(st)
            THEN [g |-> g, l |-> [l EXCEPT !.pc = "fallback", !.exc = "FileNotFoundError"]]
            ELSE [g |-> g,
                  l |-> [l EXCEPT !.pc = "lookup", !.st = st, !.now = env.now,
                                  !.key = Some(CacheKey(l.file_path, l.lang, l.cycle, l.terms,
                                                        l.mode, l.hold, l.prompt, Val(st)))]]
    IN Keyed(Stat(env.disk, l.file_path))

\* lines 157-163: the lookup, and the hit; c is the copy made of the entry's data
StepLookup(env, g, l) ==
    LET Hit(ent, c) ==
            Returned([g EXCEPT !.heap = Annotate(c.heap, c.ref,
                                            CacheNote(TRUE, Some(l.now - Val(ent).ts), None))],
                     [l EXCEPT !.ent = ent, !.out = Some(c.ref), !.hit = TRUE])
        LookedUp(ent) ==
            IF Fresh(ent, l.now)
            THEN Hit(ent, DeepCopy(g.heap, Val(ent).data, OutRef(l.p)))
            ELSE [g |-> g, l |-> [l EXCEPT !.pc = "compute", !.ent = ent]]
    IN LookedUp(CacheGet(g.cache, Val(l.key)))

\* line 165: the miss; r is what analyze_file gave
StepCompute(env, g, l) ==
    LET Computed(r) ==
            IF r.exc # NoExc
            THEN [g |-> g, l |-> [l EXCEPT !.pc = "fallback", !.exc = r.exc, !.computes = @ + 1]]
            ELSE [g |-> [g EXCEPT !.heap = (OutRef(l.p) :> r.result) @@ g.heap],
                  l |-> [l EXCEPT !.pc = "prune", !.out = Some(OutRef(l.p)), !.computes = @ + 1]]
    IN Computed(Direct(env, l))

\* the bound checked one entry late
StepPruneLate(env, g, l) ==
    IF Len(g.cache) > _ANALYSIS_CACHE_MAX
    THEN [g |-> g, l |-> [l EXCEPT !.pc = "pop", !.oldest_k = OldestKey(g.cache)]]
    ELSE [g |-> g, l |-> [l EXCEPT !.pc = "store"]]

\* lines 168-175: the bound check and the search for the oldest entry
StepPrune(env, g, l) ==
    IF Len(g.cache) >= _ANALYSIS_CACHE_MAX
    THEN [g |-> g, l |-> [l EXCEPT !.pc = "pop", !.oldest_k = OldestKey(g.cache)]]
    ELSE [g |-> g, l |-> [l EXCEPT !.pc = "store"]]

\* lines 176-177
StepPop(env, g, l) ==
    [g |-> IF IsNone(l.oldest_k) THEN g ELSE [g EXCEPT !.cache = CachePop(g.cache, Val(l.oldest_k))],
     l |-> [l EXCEPT !.pc = "store"]]

\* lines 179-183: the store, then the annotation of the result returned.
\* Beside ts and data an entry keeps by, the call that stored it.
StepStore(env, g, l) ==
    LET Stored(c) ==
            Returned([cache |-> CachePut(g.cache, [key |-> Val(l.key), ts |-> l.now,
                                                   data |-> c.ref, by |-> Ident(l)]),
                      heap |-> Annotate(c.heap, Val(l.out), CacheNote(FALSE, Some(0), None))],
                     l)
    IN Stored(DeepCopy(g.heap, Val(l.out), DataRef(Val(l.key))))

\* lines 184-190: the last resort; r is what analyze_file gave
StepFallback(env, g, l) ==
    LET FellBack(r) ==
            IF r.exc # NoExc
            THEN [g |-> g, l |-> [l EXCEPT !.pc = "raised", !.exc = r.exc, !.computes = @ + 1]]
            ELSE Returned([g EXCEPT !.heap = Annotate((OutRef(l.p) :> r.result) @@ g.heap,
                                                     OutRef(l.p),
                                                     CacheNote(FALSE, None, Some(l.exc)))],
                          [l EXCEPT !.out = Some(OutRef(l.p)), !.computes = @ + 1])
    IN FellBack(Direct(env, l))

RunningPcs == {"stat", "lookup", "compute", "prune", "pop", "store", "fallback"}

Step(env, g, l) ==
    CASE l.pc = "stat" -> StepStat(env, g, l)
      [] l.pc = "lookup" -> StepLookup(env, g, l)
      [] l.pc = "compute" -> StepCompute(env, g, l)
      [] l.pc = "prune" -> StepPrune(env, g, l)
      [] l.pc = "pop" -> StepPop(env, g, l)
      [] l.pc = "store" -> StepStore(env, g, l)
      [] l.pc = "fallback" -> StepFallback(env, g, l)

\* the whole call, run to its return or to the exception that leaves it
RECURSIVE Run(_, _, _)
Run(env, g, l) ==
    LET Continue(s) == Run(env, s.g, s.l)
    IN IF l.pc \in RunningPcs THEN Continue(Step(env, g, l)) ELSE [g |-> g, l |-> l]

analyze_file_cached(env, g, p, a) == Run(env, g, NewCall(p, a))

-----------------------------------------------------------------------------
(* The handlers that call analyze_file_cached                              *)

\* main.py 401-402: analysis.setdefault('governance_intent', {}), then its theme
AttachTheme(heap, ref, theme) ==
    [heap EXCEPT ![ref].governance_intent =
        Some([theme |-> theme])]

\* report_boardpack goes on to write into the dict it was given; the chart
\* and chat handlers only read theirs
HandlerTail(g, l) ==
    IF l.pc = "returned" /\ l.handler = "report"
    THEN [g |-> [g EXCEPT !.heap = AttachTheme(g.heap, Val(l.out), "dark")],
          l |-> [l EXCEPT !.pc = "done", !.touched = TRUE]]
    ELSE [g |-> g, l |-> [l EXCEPT !.pc = IF l.pc = "returned" THEN "done" ELSE l.pc]]

Callers == {"p1", "p2"}
MaxCalls == 3
MaxTicks == 3
MaxKeyCalls == 2
MaxAnalyses == 2
MaxConcCalls == 3
\* the clock of the model advances by half the time an entry lives
TickS == _ANALYSIS_CACHE_TTL_S \div 2

VARIABLES
    UPLOAD_DIR,       \* the upload directory: path -> file
    lib_path,         \* the dimension library file
    clock,            \* time.time()
    _ANALYSIS_CACHE,  \* the dict of cached results
    objects,          \* the result dicts alive, by reference
    call,             \* caller -> the state of its call
    calls,            \* the number of calls made
    results           \* every result returned, as returned, with the call's arguments

vars == <<UPLOAD_DIR, lib_path, clock, _ANALYSIS_CACHE, objects, call, calls, results>>

Env == [disk |-> UPLOAD_DIR, lib |-> lib_path, now |-> clock]
Shared == [cache |-> _ANALYSIS_CACHE, heap |-> objects]

\* the references held by the cache and by the callers
Live(c, cl) ==
    { c[i].data : i \in 1 .. Len(c) } \cup { Val(cl[p].out) : p \in { q \in Callers : ~IsNone(cl[q].out) } }

Collect(h, c, cl) == [r \in (DOMAIN h) \cap Live(c, cl) |-> h[r]]

\* what is kept of a call that returned: its identity, the file as it was
\* then, the dict returned, and whether it was served from the cache
Outcome(l) ==
    [id |-> Ident(l), file |-> UPLOAD_DIR[l.file_path], res |-> Val(l.ret), hit |-> l.hit]

\* the state after caller p has gone from call[p] to s.l, the shared state to s.g;
\* ret is the state in which analyze_file_cached returned, if it did
Commit(p, s, ret) ==
    LET To(cl) ==
            /\ _ANALYSIS_CACHE' = s.g.cache
            /\ call' = cl
            /\ objects' = Collect(s.g.heap, s.g.cache, cl)
            /\ results' = IF ret.l.pc = "returned" THEN results \cup {Outcome(ret.l)} ELSE results
    IN To([call EXCEPT ![p] = s.l])

Init ==
    /\ UPLOAD_DIR = [f \in {"f1"} |-> FileHistory[1]]
    /\ lib_path \in LibFiles
    /\ clock = 0
    /\ _ANALYSIS_CACHE = <<>>
    /\ objects = <<>>
    /\ call = [p \in Callers |-> Idle(p)]
    /\ calls = 0
    /\ results = {}

AtRest(p) == call[p].pc \in {"idle", "done", "raised"}

\* one request served from start to end, at most limit of them
Request(p, a, limit) ==
    LET Served(ret) == Commit(p, HandlerTail(ret.g, ret.l), ret)
    IN /\ AtRest(p)
       /\ calls < limit
       /\ calls' = calls + 1
       /\ Served(analyze_file_cached(Env, Shared, p, a))
       /\ UNCHANGED <<UPLOAD_DIR, lib_path, clock>>

\* time passes
Tick ==
    /\ clock < MaxTicks * TickS
    /\ clock' = clock + TickS
    /\ UNCHANGED <<UPLOAD_DIR, lib_path, _ANALYSIS_CACHE, objects, call, calls, results>>

\* the file is written again, or removed
WriteFile ==
    /\ \E i \in 1 .. (Len(FileHistory) - 1) :
          /\ UPLOAD_DIR["f1"] = FileHistory[i]
          /\ UPLOAD_DIR' = [UPLOAD_DIR EXCEPT !["f1"] = FileHistory[i + 1]]
    /\ UNCHANGED <<lib_path, clock, _ANALYSIS_CACHE, objects, call, calls, results>>

\* Requests served one at a time, while time passes and the file changes
Next ==
    \/ \E a \in Requests : Request("p1", a, MaxCalls)
    \/ Tick
    \/ WriteFile

Spec == Init /\ [][Next]_vars

\* The requests of every argument, served one at a time as the file changes
NextKeys ==
    \/ \E a \in KeyRequests : Request("p1", a, MaxKeyCalls)
    \/ WriteFile

SpecKeys == Init /\ [][NextKeys]_vars

-----------------------------------------------------------------------------
(* analyze_file applied to each input                                      *)

InitAnalyze ==
    /\ UPLOAD_DIR \in { [f \in {"f1"} |-> x] : x \in Files }
    /\ lib_path \in LibFiles
    /\ clock = 0
    /\ _ANALYSIS_CACHE = <<>>
    /\ objects = <<>>
    /\ call = [p \in Callers |-> Idle(p)]
    /\ calls = 0
    /\ results = {}

\* analyze_file(file_path, ...) called, its result kept
Analyze(p, a) ==
    LET As(l) ==
            /\ call' = [call EXCEPT ![p] = l]
            /\ results' = IF l.exc = NoExc THEN results \cup {Outcome(l)} ELSE results
        Analyzed(l, r) ==
            As([l EXCEPT !.pc = IF r.exc = NoExc THEN "done" ELSE "raised",
                         !.exc = r.exc, !.computes = 1,
                         !.st = Stat(UPLOAD_DIR, l.file_path),
                         !.ret = IF r.exc = NoExc THEN Some(r.result) ELSE None])
        Called(l) == Analyzed(l, Direct(Env, l))
    IN /\ calls < MaxAnalyses
       /\ calls' = calls + 1
       /\ Called(NewCall(p, a))
       /\ UNCHANGED <<UPLOAD_DIR, lib_path, clock, _ANALYSIS_CACHE, objects>>

NextAnalyze == \E a \in AllRequests : Analyze("p1", a)

SpecAnalyze == InitAnalyze /\ [][NextAnalyze]_vars

-----------------------------------------------------------------------------
(* The metric extractor applied to located rows                            *)

InitLocated ==
    /\ UPLOAD_DIR \in { [f \in {"f1"} |-> FileAt(1, 10, wb)] : wb \in LocatedWorkbooks }
    /\ lib_path = LibAbsent
    /\ clock = 0
    /\ _ANALYSIS_CACHE = <<>>
    /\ objects = <<>>
    /\ call = [p \in Callers |-> Idle(p)]
    /\ calls = 0
    /\ results = {}

\* the rest of _extract_is_metrics for the income statement of the file, with
\* located[i] taken as the row _find_row returned for key i (None: no row);
\* kept with it: what _find_numeric_in_row returns for each row located
ExtractRows(located) ==
    LET Kept(sheet) ==
            [sheet |-> sheet, rows |-> located,
             nums |-> [i \in 1 .. Len(IsKeyOrder) |->
                          IF IsNone(located[i]) THEN None
                          ELSE Some(_find_numeric_in_row(sheet.df, Val(located[i])))],
             out |-> ExtractLocated(sheet, [i \in 1 .. Len(IsKeyOrder) |->
                                               [exc |-> NoExc, row |-> located[i]]])]
        Of(sheets) == Kept(sheets[ChooseIsSheet(sheets)])
    IN /\ results = {}
       /\ results' = {Of(UPLOAD_DIR["f1"].wb.sheets)}
       /\ UNCHANGED <<UPLOAD_DIR, lib_path, clock, _ANALYSIS_CACHE, objects, call, calls>>

\* the rows _find_row can return for a grid: None or an index
RowChoices(df) == {None} \cup { Some(r) : r \in Range(0, NRows(df)) }

NextLocated ==
    \E located \in [1 .. Len(IsKeyOrder) ->
                       RowChoices(UPLOAD_DIR["f1"].wb.sheets[ChooseIsSheet(UPLOAD_DIR["f1"].wb.sheets)].df)] :
        ExtractRows(located)

SpecLocated == InitLocated /\ [][NextLocated]_vars

-----------------------------------------------------------------------------
(* The row locator and the cash-cycle scanner applied to sheets            *)

MaxScans == 2

InitScans ==
    /\ UPLOAD_DIR \in { [f \in {"f1"} |-> FileAt(1, 10, wb)] :
                          wb \in (Workbooks \cup LocatedWorkbooks \cup {WbFar, WbBelow}) \ {WbUnreadable} }
    /\ lib_path = LibAbsent
    /\ clock = 0
    /\ _ANALYSIS_CACHE = <<>>
    /\ objects = <<>>
    /\ call = [p \in Callers |-> Idle(p)]
    /\ calls = 0
    /\ results = {}

\* _find_row(df, _IS_KEYS[key], forbid) on sheet si of the file
FindRow(si, key, forbid) ==
    /\ Cardinality(results) < MaxScans
    /\ si \in 1 .. Len(UPLOAD_DIR["f1"].wb.sheets)
    /\ results' = results \cup
          {[op |-> "_find_row", sheets |-> <<UPLOAD_DIR["f1"].wb.sheets[si]>>, key |-> key,
            forbid |-> forbid,
            out |-> _find_row(UPLOAD_DIR["f1"].wb.sheets[si].df, _IS_KEYS(key), forbid)]}
    /\ UNCHANGED <<UPLOAD_DIR, lib_path, clock, _ANALYSIS_CACHE, objects, call, calls>>

\* _scan_kpi_by_keywords(sheets, variants of k) on the sheets of the file
ScanKpi(k) ==
    /\ Cardinality(results) < MaxScans
    /\ results' = results \cup
          {[op |-> "_scan_kpi_by_keywords", sheets |-> UPLOAD_DIR["f1"].wb.sheets, key |-> k,
            forbid |-> <<>>,
            out |-> _scan_kpi_by_keywords(UPLOAD_DIR["f1"].wb.sheets, CashKeywords(k))]}
    /\ UNCHANGED <<UPLOAD_DIR, lib_path, clock, _ANALYSIS_CACHE, objects, call, calls>>

NextScans ==
    \/ \E si \in 1 .. 2 : \E key \in KpiKeys : \E forbid \in {<<>>, _FORBID_TOKENS(key)} :
          FindRow(si, key, forbid)
    \/ \E k \in {"DSO", "DIO", "DPO", "CCC"} : ScanKpi(k)

SpecScans == InitScans /\ [][NextScans]_vars

-----------------------------------------------------------------------------
(* The chart endpoints                                                     *)

ChartEndpoints ==
    {"scoreboard", "radar", "linkmap", "rev_bridge", "gm_bridge", "opex_mix", "wc_pulse",
     "bcg_customers"}

\* app/static/linkmap_premium_{en,zh}.png, which scoreboard_chart_png serves
\* when it exists
StaticPng(lang) == IF lang = "en" THEN "linkmap_premium_en.png" ELSE "linkmap_premium_zh.png"

\* the image file: absent, an image, an empty file
StaticFiles == {FileGone, FileAt(1, 64, WbUnreadable), FileAt(1, 0, WbUnreadable)}

\* empty_state_chart_png(title, message, ...): message has no default, a call
\* without it is a TypeError; else the bytes of the figure saved
empty_state_chart_png(title, message) ==
    IF IsNone(message) THEN [exc |-> "TypeError", len |-> 0] ELSE [exc |-> NoExc, len |-> 64]

\* len(out) > 8
PngMinLen == 8

\* _safe_png: the bytes of the chart function, or the empty-state chart
\* called with lang and title alone
_safe_png(out) ==
    IF out.exc = NoExc /\ out.len > PngMinLen
    THEN [exc |-> NoExc, len |-> out.len, fallback |-> FALSE]
    ELSE [exc |-> empty_state_chart_png(Some("Chart unavailable"), None).exc,
          len |-> empty_state_chart_png(Some("Chart unavailable"), None).len,
          fallback |-> TRUE]

\* the chart function of an endpoint: the shared state it leaves, the state
\* of its call of analyze_file_cached, and its bytes.  Each draws inside a
\* try whose except branch returns empty_state_chart_png(title, message):
\* whatever the analysis does, the function returns a figure.
ChartFn(env, g, l, endpoint, a) ==
    LET Drawn(s) == [g |-> s.g, l |-> s.l, out |-> empty_state_chart_png(Some(endpoint), Some("Fallback"))]
        \* the endpoints whose chart function calls analyze_file_cached
        AnalysisCharts == {"scoreboard", "radar", "linkmap", "rev_bridge", "gm_bridge", "wc_pulse"}
    IN IF endpoint = "scoreboard" /\ env.disk[StaticPng(a.lang)].exists
       THEN [g |-> g, l |-> l,
             out |-> [exc |-> NoExc, len |-> env.disk[StaticPng(a.lang)].size]]
       ELSE IF endpoint \in AnalysisCharts
            THEN Drawn(analyze_file_cached(env, g, l.p, a))
            ELSE Drawn([g |-> g, l |-> l])

MaxCharts == 2

InitCharts ==
    /\ UPLOAD_DIR \in { [f \in {"f1", StaticPng("en"), StaticPng("zh")} |->
                            CASE f = "f1" -> x [] f = StaticPng("en") -> en [] OTHER -> zh] :
                        x \in {FileGone, FileAt(1, 10, WbKpi), FileAt(1, 10, WbDays)},
                        en \in StaticFiles, zh \in StaticFiles }
    /\ lib_path \in {LibAbsent, LibMalformed}
    /\ clock = 0
    /\ _ANALYSIS_CACHE = <<>>
    /\ objects = <<>>
    /\ call = [p \in Callers |-> Idle(p)]
    /\ calls = 0
    /\ results = {}

\* GET /api/chart/<endpoint>: 404 when _find_file_path finds no file, else the
\* bytes of _safe_png as image/png, or the exception _safe_png raises
Chart(p, endpoint, a) ==
    LET Response(png) ==
            [endpoint |-> endpoint, lang |-> a.lang, file |-> UPLOAD_DIR[a.file_path],
             static |-> UPLOAD_DIR[StaticPng(a.lang)],
             status |-> IF png.exc = NoExc THEN 200 ELSE 500,
             png |-> png.exc = NoExc /\ png.len > PngMinLen,
             fallback |-> png.fallback]
        NotFound ==
            [endpoint |-> endpoint, lang |-> a.lang, file |-> UPLOAD_DIR[a.file_path],
             static |-> UPLOAD_DIR[StaticPng(a.lang)], status |-> 404, png |-> FALSE,
             fallback |-> FALSE]
        To(s, cl, resp) ==
            /\ _ANALYSIS_CACHE' = s.g.cache
            /\ call' = cl
            /\ objects' = Collect(s.g.heap, s.g.cache, cl)
            /\ results' = results \cup {resp}
        Served(s) ==
            To(s, [call EXCEPT ![p] = [s.l EXCEPT !.pc = IF s.l.pc = "returned" THEN "done" ELSE s.l.pc]],
               Response(_safe_png(s.out)))
    IN /\ AtRest(p)
       /\ calls < MaxCharts
       /\ calls' = calls + 1
       /\ IF ~UPLOAD_DIR[a.file_path].exists
          THEN To([g |-> Shared], call, NotFound)
          ELSE Served(ChartFn(Env, Shared, call[p], endpoint, a))
       /\ UNCHANGED <<UPLOAD_DIR, lib_path, clock>>

NextCharts == \E endpoint \in ChartEndpoints : \E a \in {ReqBase, ReqLang} : Chart("p1", endpoint, a)

SpecCharts == InitCharts /\ [][NextCharts]_vars

-----------------------------------------------------------------------------
(* Two handlers at once: each step of a call is a step of the model        *)

\* the cache after the requests of reqs were served in turn
RECURSIVE Warm(_, _, _)
Warm(env, g, reqs) ==
    IF reqs = <<>> THEN g
    ELSE Warm(env, analyze_file_cached(env, g, "p1", Head(reqs)).g, Tail(reqs))

InitConc ==
    LET Warmed(g) ==
            /\ _ANALYSIS_CACHE = g.cache
            /\ objects = Collect(g.heap, g.cache, call)
    IN
    /\ UPLOAD_DIR = [f \in {"f1"} |-> FileHistory[2]]
    /\ lib_path \in LibFiles
    /\ clock = 0
    /\ call = [p \in Callers |-> Idle(p)]
    /\ calls = 0
    /\ results = {}
    /\ Warmed(Warm([disk |-> UPLOAD_DIR, lib |-> lib_path, now |-> 0],
                   [cache |-> <<>>, heap |-> <<>>], WarmRequests))

\* The chart handlers are plain functions, which the server runs on the
\* threads of its pool; report_boardpack is a coroutine of the one event loop
\* and awaits nothing in its call, so no two of its calls are under way at once.
OnLoop(p) == ~AtRest(p) /\ call[p].handler = "report"
Enter(p, a) ==
    /\ AtRest(p)
    /\ a.handler = "report" => \A q \in Callers : ~OnLoop(q)
    /\ calls < MaxConcCalls
    /\ calls' = calls + 1
    /\ call' = [call EXCEPT ![p] = NewCall(p, a)]
    /\ UNCHANGED <<UPLOAD_DIR, lib_path, clock, _ANALYSIS_CACHE, objects, results>>

\* caller p has taken a step, to s
Took(p, s) ==
    /\ Commit(p, s, s)
    /\ UNCHANGED <<UPLOAD_DIR, lib_path, clock, calls>>

DoStat(p) == call[p].pc = "stat" /\ Took(p, StepStat(Env, Shared, call[p]))
DoLookup(p) == call[p].pc = "lookup" /\ Took(p, StepLookup(Env, Shared, call[p]))
DoCompute(p) == call[p].pc = "compute" /\ Took(p, StepCompute(Env, Shared, call[p]))
DoPrune(p) == call[p].pc = "prune" /\ Took(p, StepPrune(Env, Shared, call[p]))
DoPop(p) == call[p].pc = "pop" /\ Took(p, StepPop(Env, Shared, call[p]))
DoStore(p) == call[p].pc = "store" /\ Took(p, StepStore(Env, Shared, call[p]))
DoFallback(p) == call[p].pc = "fallback" /\ Took(p, StepFallback(Env, Shared, call[p]))

\* the handler goes on with the dict it was given
Leave(p) ==
    /\ call[p].pc = "returned"
    /\ Commit(p, HandlerTail(Shared, call[p]), [l |-> [pc |-> "done"]])
    /\ UNCHANGED <<UPLOAD_DIR, lib_path, clock, calls>>

NextConc ==
    \E p \in Callers :
        \/ \E a \in ConcRequests : Enter(p, a)
        \/ DoStat(p)
        \/ DoLookup(p)
        \/ DoCompute(p)
        \/ DoPrune(p)
        \/ DoPop(p)
        \/ DoStore(p)
        \/ DoFallback(p)
        \/ Leave(p)

SpecConc == InitConc /\ [][NextConc]_vars

\* Requests served one at a time to a cache that holds seven entries
SpecWarm == InitConc /\ [][Next]_vars

-----------------------------------------------------------------------------
(* Properties                                                              *)

\* a result without its system.cache annotation
NoCache(res) == [res EXCEPT !.system.cache = None]

\* the arguments of the call a result belongs to
ArgsOfId(id) == [lang |-> id[2], prompt |-> id[3], cycle |-> id[4],
                 terms |-> id[5], mode |-> id[6], hold |-> id[7]]

HasType(backlog, type) == \E i \in 1 .. Len(backlog) : backlog[i].type = type

\* C1: whatever the workbook, the file, the language and the filters, a call
\* of analyze_file or of analyze_file_cached returns and raises nothing to its
\* caller, and the status of what it returns is OK, PARTIAL or DEGRADED.
C1_NeverRaises ==
    /\ \A p \in Callers : call[p].pc # "raised"
    /\ \A r \in results : r.res.status \in {"OK", "PARTIAL", "DEGRADED"}

\* a call of analyze_file_cached that an AttributeError has left
C1_Raised ==
    \E p \in Callers : call[p].pc = "raised" /\ call[p].exc = "AttributeError" /\ call[p].computes = 2

\* C2: in every result of analyze_file the status is OK exactly when the
\* backlog is empty, PARTIAL exactly when the backlog holds a MAPPING_GAP and
\* no SYSTEM_ERROR, and DEGRADED exactly when it holds a SYSTEM_ERROR.
C2_StatusFromBacklog ==
    \A r \in results :
        /\ r.res.status = "OK" <=> r.res.mapping_backlog = <<>>
        /\ r.res.status = "PARTIAL" <=> /\ HasType(r.res.mapping_backlog, "MAPPING_GAP")
                                        /\ ~HasType(r.res.mapping_backlog, "SYSTEM_ERROR")
        /\ r.res.status = "DEGRADED" <=> HasType(r.res.mapping_backlog, "SYSTEM_ERROR")

\* a result whose backlog holds mapping gaps alone
C2_PartialOnGaps ==
    \E r \in results : /\ r.res.status = "PARTIAL"
                        /\ HasType(r.res.mapping_backlog, "MAPPING_GAP")
                        /\ ~HasType(r.res.mapping_backlog, "SYSTEM_ERROR")

\* C3: two calls of analyze_file_cached of the same path, language, prompt
\* and filters, made while the file has the same modification time and size,
\* return results that are equal in every field but system.cache.
C3_Idempotent ==
    \A r1, r2 \in results : r1.id = r2.id => NoCache(r1.res) = NoCache(r2.res)

\* the same call answered twice, once computed and once from the cache
C3_SameCallTwice ==
    \E r1, r2 \in results : r1.id = r2.id /\ ~IsNone(r1.id[8]) /\ ~r1.hit /\ r2.hit

\* C4: a call is served an entry only if a call of exactly the same path,
\* language, prompt, filters, modification time and size stored it, and
\* entries stored by calls that differ in any of these lie under different keys.
C4_ServedOwnKey ==
    /\ \A p \in Callers : call[p].hit => Val(call[p].ent).by = Ident(call[p])
    /\ \A i, j \in 1 .. Len(_ANALYSIS_CACHE) :
            _ANALYSIS_CACHE[i].by # _ANALYSIS_CACHE[j].by
                => _ANALYSIS_CACHE[i].key # _ANALYSIS_CACHE[j].key

\* a call that found no entry although the cache holds the entry of a call
\* that differs from it in one component alone
C4_NeighbourMissed ==
    \E p \in Callers :
        /\ call[p].pc = "done" /\ ~call[p].hit /\ call[p].computes = 1 /\ IsNone(call[p].ent)
        /\ \E i \in 1 .. Len(_ANALYSIS_CACHE) :
              Cardinality({ k \in 1 .. 8 : _ANALYSIS_CACHE[i].by[k] # Ident(call[p])[k] }) = 1

\* C5: a call that finds an entry younger than the TTL returns a copy of what
\* is stored, annotated hit with the entry's age, and does not call
\* analyze_file; a call that finds no entry, or one whose age has reached the
\* TTL, calls analyze_file, and what analyze_file returns is stored under the
\* key with the time of the call and returned annotated as a miss of age 0.
\* (A call in which analyze_file raises has no result to store or to return.)
C5_HitMissProtocol ==
    \A p \in Callers :
        (call[p].pc \in {"done", "raised"} /\ ~IsNone(call[p].key)) =>
            IF call[p].hit
            THEN /\ ~IsNone(call[p].ent)
                 /\ call[p].now - Val(call[p].ent).ts < _ANALYSIS_CACHE_TTL_S
                 /\ call[p].computes = 0
                 /\ Val(call[p].ret).system.cache =
                        Some(CacheNote(TRUE, Some(call[p].now - Val(call[p].ent).ts), None))
                 /\ NoCache(Val(call[p].ret)) = objects[Val(call[p].ent).data]
            ELSE /\ \/ IsNone(call[p].ent)
                    \/ call[p].now - Val(call[p].ent).ts >= _ANALYSIS_CACHE_TTL_S
                 /\ call[p].computes >= 1
                 /\ call[p].pc = "done" =>
                        /\ call[p].computes = 1
                        /\ Val(call[p].ret).system.cache = Some(CacheNote(FALSE, Some(0), None))
                        /\ ~IsNone(CacheGet(_ANALYSIS_CACHE, Val(call[p].key)))
                        /\ Val(CacheGet(_ANALYSIS_CACHE, Val(call[p].key))).ts = call[p].now
                        /\ objects[DataRef(Val(call[p].key))] = NoCache(Val(call[p].ret))

\* a call that found the entry of its key at exactly the age of the TTL, and
\* computed
C5_ExpiredAtTTL ==
    \E p \in Callers :
        /\ call[p].pc = "done" /\ ~call[p].hit /\ ~IsNone(call[p].ent)
        /\ call[p].now - Val(call[p].ent).ts = _ANALYSIS_CACHE_TTL_S
        /\ call[p].computes = 1

\* C6: what analyze_file_cached returns equals, in every field but
\* system.cache, what analyze_file gives for the same arguments and the file
\* as it is when the call returns.
C6_EqualsDirect ==
    \A r \in results :
        NoCache(r.res) = NoCache(AnalyzeTable[<<r.file, lib_path, ArgsOfId(r.id)>>].result)

\* a result served from the cache after the file had been written again
C6_HitAfterWrite ==
    \E r1, r2 \in results : r1.hit /\ ~r2.hit /\ r1.file # r2.file /\ r1.file # FileHistory[1]

\* C7: with callers of analyze_file_cached running at once, the lookup, the
\* eviction and the insertion of one call exclude those of another: no entry
\* is stored over an entry the storing call has not seen, no two calls evict
\* for the same oldest key, and the cache never holds more than its bound.
C7_MutualExclusion ==
    /\ Cardinality({ p \in Callers : call[p].pc \in {"lookup", "compute", "prune", "pop", "store"} }) <= 1
    /\ \A p \in Callers :
          (call[p].pc = "store" /\ ~IsNone(CacheGet(_ANALYSIS_CACHE, Val(call[p].key))))
              => CacheGet(_ANALYSIS_CACHE, Val(call[p].key)) = call[p].ent
    /\ \A p, q \in Callers :
          (p # q /\ call[p].pc = "pop" /\ call[q].pc = "pop") => call[p].oldest_k # call[q].oldest_k
    /\ Len(_ANALYSIS_CACHE) <= _ANALYSIS_CACHE_MAX

\* the cache holding more entries than its bound
C7_BoundExceeded == Len(_ANALYSIS_CACHE) > _ANALYSIS_CACHE_MAX

\* C8: what a caller does to the dict it was given changes neither the dict
\* an entry of the cache holds nor what a later call is given: an entry that
\* stays in the cache keeps its content, and no result comes back with the
\* governance_intent the report handler writes.
C8_CopiesIsolated ==
    [][/\ \A i \in 1 .. Len(_ANALYSIS_CACHE) : \A j \in 1 .. Len(_ANALYSIS_CACHE') :
            (/\ _ANALYSIS_CACHE[i].key = _ANALYSIS_CACHE'[j].key
             /\ _ANALYSIS_CACHE[i].ts = _ANALYSIS_CACHE'[j].ts)
                => objects'[_ANALYSIS_CACHE'[j].data] = objects[_ANALYSIS_CACHE[i].data]
       /\ \A i \in 1 .. Len(_ANALYSIS_CACHE') :
            /\ IsNone(objects'[_ANALYSIS_CACHE'[i].data].governance_intent)
            /\ IsNone(objects'[_ANALYSIS_CACHE'[i].data].system.cache)
       /\ \A r \in results' : IsNone(r.res.governance_intent)]_vars

\* the report handler has written into a dict served from the cache, and the
\* entry's dict is without it
C8_ReportWroteIntoHit ==
    \E p \in Callers :
        /\ call[p].pc = "done" /\ call[p].hit /\ call[p].touched
        /\ ~IsNone(objects[Val(call[p].out)].governance_intent)
        /\ IsNone(objects[Val(call[p].ent).data].governance_intent)

\* C9: every result of analyze_file_cached carries system.cache with both
\* hit and age_s, and is in every other field what analyze_file returned.
C9_CacheNoteComplete ==
    \A r \in results :
        /\ ~IsNone(r.res.system.cache)
        /\ Val(r.res.system.cache).hit \in BOOLEAN
        /\ ~IsNone(Val(r.res.system.cache).age_s)
        /\ NoCache(r.res) = NoCache(AnalyzeTable[<<r.file, lib_path, ArgsOfId(r.id)>>].result)

\* a result of the last resort: system.cache names the error and no age
C9_FallbackNote ==
    \E r \in results :
        /\ ~IsNone(r.res.system.cache)
        /\ IsNone(Val(r.res.system.cache).age_s)
        /\ Val(r.res.system.cache).error = Some("FileNotFoundError")

\* C10: in every result, an evidence entry with a current value has an
\* anchor or a derivation tag.
C10_EvidenceTraceable ==
    \A r \in results : \A i \in 1 .. Len(r.res.evidence_ledger) :
        ~IsNone(r.res.evidence_ledger[i].current)
            => \/ ~IsNone(r.res.evidence_ledger[i].anchor)
               \/ ~IsNone(r.res.evidence_ledger[i].derived)

\* a result whose ledger holds the DSO read from a cell
C10_AnchoredEvidence ==
    \E r \in results : \E i \in 1 .. Len(r.res.evidence_ledger) :
        /\ r.res.evidence_ledger[i].metric = "DSO"
        /\ ~IsNone(r.res.evidence_ledger[i].current)
        /\ ~IsNone(r.res.evidence_ledger[i].anchor)

\* a MAPPING_GAP entry of the backlog with the code given
HasGap(backlog, code) ==
    \E i \in 1 .. Len(backlog) : backlog[i].type = "MAPPING_GAP" /\ backlog[i].code = code

\* the values the KPI list gives for a metric
KpiValues(res, key) ==
    { res.kpis[i].value : i \in { j \in 1 .. Len(res.kpis) : res.kpis[j].canonical_metric_id = key } }

\* the cells of a workbook whose text matches one of the keywords: <<sheet, r, c>>
LabelCellsOf(wb, keywords) ==
    { x \in UNION { { <<s, r, c>> : r \in Range(0, NRows(wb.sheets[s].df)),
                                    c \in Range(0, NCols(wb.sheets[s].df)) } :
                    s \in 1 .. Len(wb.sheets) } :
        /\ ~IsNull(Iat(wb.sheets[x[1]].df, x[2], x[3]))
        /\ LabelMatches(Iat(wb.sheets[x[1]].df, x[2], x[3]), keywords) }

\* C12: in every result that is not DEGRADED, each of the nine metrics that
\* has no value has a MAPPING_GAP entry of the backlog naming it; in a result
\* of status OK every metric has a value.
C12_AbsentMetricHasGap ==
    \A r \in results : r.res.status # "DEGRADED" =>
        /\ r.res.status = "OK" =>
              /\ \A key \in KpiKeys : \E v \in KpiValues(r.res, key) : ~IsNone(v)
              /\ \A k \in {"dso", "dio", "dpo", "ccc"} : ~IsNone(r.res.cash_cycle[k])
        /\ \A key \in KpiKeys :
              (\A v \in KpiValues(r.res, key) : IsNone(v))
                  => HasGap(r.res.mapping_backlog, "IS_ROW_MISSING::" \o key)
        /\ IsNone(r.res.cash_cycle.dso) => HasGap(r.res.mapping_backlog, "MISSING::DSO")
        /\ IsNone(r.res.cash_cycle.dio) => HasGap(r.res.mapping_backlog, "MISSING::DIO")
        /\ IsNone(r.res.cash_cycle.dpo) => HasGap(r.res.mapping_backlog, "MISSING::DPO")
        /\ IsNone(r.res.cash_cycle.ccc) => HasGap(r.res.mapping_backlog, "MISSING::CCC")

\* a PARTIAL result with no KPI and no gap naming revenue
C12_NoSheetsGapOnly ==
    \E r \in results :
        /\ r.res.status = "PARTIAL" /\ r.res.kpis = <<>>
        /\ HasGap(r.res.mapping_backlog, "NO_SHEETS")
        /\ ~HasGap(r.res.mapping_backlog, "IS_ROW_MISSING::revenue")

\* C13: a result of status DEGRADED has an empty KPI list, an empty
\* narrative, a radar of 8 dimensions each of score 5.0 and confidence 0.2,
\* and a SYSTEM_ERROR entry with the kind and the message of the exception.
C13_DegradedComplete ==
    \A r \in results : r.res.status = "DEGRADED" =>
        /\ r.res.kpis = <<>>
        /\ r.res.scoreboard_narrative = NoNarrative
        /\ Len(r.res.radar_signals) = 8
        /\ \A i \in 1 .. Len(r.res.radar_signals) :
              /\ r.res.radar_signals[i].score = NeutralScore
              /\ r.res.radar_signals[i].confidence = NeutralConf
        /\ \E i \in 1 .. Len(r.res.mapping_backlog) :
              /\ r.res.mapping_backlog[i].type = "SYSTEM_ERROR"
              /\ r.res.mapping_backlog[i].code # ""
              /\ r.res.mapping_backlog[i].detail # ""

\* a DEGRADED result whose radar has fewer than 8 dimensions
C13_DegradedShortRadar ==
    \E r \in results : r.res.status = "DEGRADED" /\ Len(r.res.radar_signals) < 8

\* C15: for a workbook whose income statement has a "Gross Profit" row and a
\* "Gross Profit Margin" row, the gross_profit KPI has the value of the
\* rightmost number of the "Gross Profit" row.
C15_MarginRowRejected ==
    \A r \in results :
        \A x \in LabelCellsOf(r.file.wb, <<TxtGrossProfit>>) :
            (/\ x[1] = ChooseIsSheet(r.file.wb.sheets)
             /\ _norm(CellText(Iat(r.file.wb.sheets[x[1]].df, x[2], x[3]))) = _norm(TxtGrossProfit)
             /\ \E y \in LabelCellsOf(r.file.wb, <<TxtGrossProfit \o TxtMargin>>) : y[1] = x[1])
                => KpiValues(r.res, "gross_profit") =
                       {OptQ(_find_numeric_in_row(r.file.wb.sheets[x[1]].df, x[2]).curr)}

\* such a workbook analysed, and the result DEGRADED by a NameError
C15_LocatorRaised ==
    \E r \in results :
        /\ r.file.wb = WbMargin
        /\ r.res.status = "DEGRADED"
        /\ \E i \in 1 .. Len(r.res.mapping_backlog) : r.res.mapping_backlog[i].code = "NameError"

\* C17: for a workbook in which no cell holds a revenue label, the backlog
\* has the MAPPING_GAP IS_ROW_MISSING::revenue and the KPI list gives revenue
\* no value.
C17_RevenueGap ==
    \A r \in results :
        LabelCellsOf(r.file.wb, _IS_KEYS("revenue")) = {} =>
            /\ HasGap(r.res.mapping_backlog, "IS_ROW_MISSING::revenue")
            /\ \A v \in KpiValues(r.res, "revenue") : IsNone(v)

\* a workbook with a label that is not revenue, and a DEGRADED result
\* without the gap
C17_OtherLabelDegrades ==
    \E r \in results :
        /\ LabelCellsOf(r.file.wb, _IS_KEYS("revenue")) = {}
        /\ r.res.status = "DEGRADED"
        /\ ~HasGap(r.res.mapping_backlog, "IS_ROW_MISSING::revenue")

\* no number in the 8 cells to the right of cell x of a workbook, nor in the
\* 8 cells below it
NoFigureNear(wb, x) ==
    /\ \A c \in Range(x[3] + 1, Min(NCols(wb.sheets[x[1]].df), x[3] + 9)) :
          IsNone(_to_float(Iat(wb.sheets[x[1]].df, x[2], c)))
    /\ \A q \in Range(x[2] + 1, Min(NRows(wb.sheets[x[1]].df), x[2] + 9)) :
          IsNone(_to_float(Iat(wb.sheets[x[1]].df, q, x[3])))

\* C18: for a workbook with a DSO label and no number within 8 cells to the
\* right of or below a DSO label, the analysis gives DSO no value and records
\* it as missing.
C18_DsoRecordedMissing ==
    \A r \in results :
        (/\ LabelCellsOf(r.file.wb, CashKeywords("DSO")) # {}
         /\ \A x \in LabelCellsOf(r.file.wb, CashKeywords("DSO")) : NoFigureNear(r.file.wb, x))
            => /\ IsNone(r.res.cash_cycle.dso)
               /\ HasGap(r.res.mapping_backlog, "MISSING::DSO")

\* a workbook with a DSO label and no figure, and a DEGRADED result in which
\* DSO is not recorded as missing
C18_DsoLabelDegrades ==
    \E r \in results :
        /\ LabelCellsOf(r.file.wb, CashKeywords("DSO")) # {}
        /\ \A x \in LabelCellsOf(r.file.wb, CashKeywords("DSO")) : NoFigureNear(r.file.wb, x)
        /\ r.res.status = "DEGRADED"
        /\ ~HasGap(r.res.mapping_backlog, "MISSING::DSO")

\* C19: every result has exactly 8 radar signals, each with a score in
\* [0, 10] and a confidence in [0, 1] (scores and confidences are in tenths).
C19_EightSignals ==
    \A r \in results :
        /\ Len(r.res.radar_signals) = 8
        /\ \A i \in 1 .. Len(r.res.radar_signals) :
              /\ r.res.radar_signals[i].score \in 0 .. 100
              /\ r.res.radar_signals[i].confidence \in 0 .. 10

\* a result that is not DEGRADED with the two signals of a library of two
C19_ShortLibrary ==
    \E r \in results : r.res.status = "PARTIAL" /\ Len(r.res.radar_signals) = 2

\* C20: the result's filters are the four values passed, and two results
\* for the same file and language, whatever their filters, have the same
\* status, KPI list, cash cycle, radar signals, evidence ledger and backlog.
C20_FiltersEchoOnly ==
    /\ \A r \in results :
          r.res.filters = [cycle |-> r.id[4], terms |-> r.id[5], mode |-> r.id[6], hold |-> r.id[7]]
    /\ \A r1, r2 \in results :
          (r1.id[1] = r2.id[1] /\ r1.id[2] = r2.id[2] /\ r1.file = r2.file) =>
              /\ r1.res.status = r2.res.status
              /\ r1.res.kpis = r2.res.kpis
              /\ r1.res.cash_cycle = r2.res.cash_cycle
              /\ r1.res.radar_signals = r2.res.radar_signals
              /\ r1.res.evidence_ledger = r2.res.evidence_ledger
              /\ r1.res.mapping_backlog = r2.res.mapping_backlog

\* two results for one file and language that differ in cycle and in terms,
\* and so in their narrative
C20_TwoFilterSets ==
    \E r1, r2 \in results :
        /\ r1.id[1] = r2.id[1] /\ r1.id[2] = r2.id[2] /\ r1.file = r2.file
        /\ r1.id[4] # r2.id[4] /\ r1.id[5] # r2.id[5]
        /\ r1.res.filters # r2.res.filters
        /\ r1.res.scoreboard_narrative # r2.res.scoreboard_narrative

\* the columns of row r of a grid that hold a number
NumericCols(df, r) == { c \in Range(0, NCols(df)) : ~IsNone(_to_float(Iat(df, r, c))) }

\* the greatest of a set of columns, if there is one
LastCol(cols) == IF cols = {} THEN None ELSE Some(CHOOSE c \in cols : \A d \in cols : d <= c)

RowsLabelled(df, label) == { r \in Range(0, NRows(df)) : Iat(df, r, 0) = Str(label) }

C16_RightmostPair ==
    \A u \in results : \A k \in 1 .. Len(IsKeyOrder) :
        ~IsNone(u.rows[k]) =>
            LET df == u.sheet.df
                r == Val(u.rows[k])
                cols == NumericCols(df, r)
                last == LastCol(cols)
                before == LastCol(cols \ { c \in cols : Some(c) = last })
                n == Val(u.nums[k])
            IN /\ n.curr_c = last
               /\ n.prev_c = before
               /\ n.curr = IF IsNone(last) THEN None ELSE _to_float(Iat(df, r, Val(last)))
               /\ n.prev = IF IsNone(before) THEN None ELSE _to_float(Iat(df, r, Val(before)))
               /\ Cardinality(cols) < 2 => IsNone(n.prev) /\ IsNone(n.prev_c)
               /\ u.out.metrics[k].key = IsKeyOrder[k]
               /\ u.out.metrics[k].anchor =
                      IF IsNone(last) THEN None ELSE Some(_a1(u.sheet.name, r, Val(last)))
               /\ IsKeyOrder[k] # "gross_margin" =>
                      /\ u.out.metrics[k].value = OptQ(n.curr)
                      /\ u.out.metrics[k].prev = OptQ(n.prev)

\* the row "Revenue", "", 1000, 1200 located for revenue: 1200, 1000, and the
\* anchor at the cell of 1200
C16_RevenueRow ==
    \E u \in results :
        /\ u.sheet.df[1] = <<Str(TxtRevenue), Str(<<>>), Num(1000), Num(1200)>>
        /\ u.rows[1] = Some(0)
        /\ Val(u.nums[1]) = [curr |-> Some(1200), curr_c |-> Some(3),
                             prev |-> Some(1000), prev_c |-> Some(2)]
        /\ u.out.metrics[1].value = Some(QInt(1200))
        /\ u.out.metrics[1].prev = Some(QInt(1000))
        /\ u.out.metrics[1].anchor = Some(_a1(NameIS, 0, 3))

\* C21: every chart request for a file that exists is answered 200 with a
\* PNG body, the empty-state chart when the chart function raised or
\* returned no usable bytes.
C21_ChartAlwaysPng ==
    \A r \in results : r.file.exists => r.status = 200 /\ r.png

\* the scoreboard asked for while its image file is empty: _safe_png goes to
\* the empty-state chart and the response is an error
C21_FallbackRaised ==
    \E r \in results :
        /\ r.file.exists /\ r.endpoint = "scoreboard"
        /\ r.static.exists /\ r.static.size = 0
        /\ r.fallback /\ r.status = 500

\* C22: a call of analyze_file_cached, its fallback included, enters the
\* extraction of analyze_file at most once, and a call that has returned
\* ended in one of the states OK, PARTIAL and DEGRADED.
C22_ExtractAtMostOnce ==
    \A p \in Callers :
        /\ call[p].computes <= 1
        /\ call[p].pc = "done" => Val(call[p].ret).status \in {"OK", "PARTIAL", "DEGRADED"}

\* a call in which analyze_file ran, failed, and ran again in the fallback
C22_ExtractedAgain ==
    \E p \in Callers : call[p].computes > 1 /\ ~call[p].hit

\* what the two extractors hand to analyze_file for a file, in the order of
\* the ledger and of the backlog
Accumulated(file, lang) ==
    LET Of(is, cc) ==
            [completed |-> is.exc = NoExc,
             evidence |-> is.evidence \o cc.evidence,
             gaps |-> [i \in 1 .. Len(is.missing \o cc.missing) |-> Gap((is.missing \o cc.missing)[i])]]
        From(sheets) == Of(_extract_is_metrics(sheets, lang), _extract_cash_cycle(sheets))
    IN From(IF file.exists /\ file.wb.readable THEN file.wb.sheets ELSE <<>>)

\* C23: a failure in a stage ends the call in DEGRADED, with a result, and
\* the result of a failure after the extraction holds every evidence entry
\* and every mapping gap the extraction produced.
C23_DegradedKeepsLedger ==
    /\ \A p \in Callers : call[p].pc # "raised"
    /\ \A r \in results :
          (r.res.status = "DEGRADED" /\ Accumulated(r.file, r.id[2]).completed) =>
              /\ \A i \in 1 .. Len(Accumulated(r.file, r.id[2]).evidence) :
                    \E j \in 1 .. Len(r.res.evidence_ledger) :
                        r.res.evidence_ledger[j] = Accumulated(r.file, r.id[2]).evidence[i]
              /\ \A i \in 1 .. Len(Accumulated(r.file, r.id[2]).gaps) :
                    \E j \in 1 .. Len(r.res.mapping_backlog) :
                        r.res.mapping_backlog[j] = Accumulated(r.file, r.id[2]).gaps[i]

\* a file whose extraction produced a gap, the scoring failed, and no result
C23_LedgerLost ==
    \E p \in Callers :
        /\ call[p].pc = "raised" /\ call[p].computes = 1
        /\ Accumulated(UPLOAD_DIR[call[p].file_path], call[p].lang).completed
        /\ Accumulated(UPLOAD_DIR[call[p].file_path], call[p].lang).gaps # <<>>

\* the score the row locator is to give the cell text s: the best of 100,
\* 90 and 60 over the keywords that match, less 40 for each forbidden token
\* found in s; None when no keyword matches
LocatorScore(s, keywords, forbid) ==
    LET Base(k) == IF s = k THEN 100 ELSE IF MatchAt(s, k, 1) THEN 90 ELSE 60
        Hits == Cardinality({ i \in 1 .. Len(forbid) :
                                _norm(forbid[i]) # <<>> /\ Contains(s, _norm(forbid[i])) })
        Bases == { Base(_norm(keywords[i])) :
                     i \in { j \in 1 .. Len(keywords) :
                               _norm(keywords[j]) # <<>> /\ Contains(s, _norm(keywords[j])) } }
    IN IF Bases = {} THEN None
       ELSE Some((CHOOSE b \in Bases : \A x \in Bases : x <= b) - 40 * Hits)

\* the row the locator is to return for a grid: that of the first cell, rows
\* from the top and columns from the left, among those of the highest score
LocatorRow(df, keywords, forbid) ==
    LET Cells == { x \in Range(0, NRows(df)) \X Range(0, Min(6, NCols(df))) :
                     /\ ~IsNull(Iat(df, x[1], x[2]))
                     /\ ~IsNone(LocatorScore(_norm(CellText(Iat(df, x[1], x[2]))), keywords, forbid)) }
        ScoreAt(x) == Val(LocatorScore(_norm(CellText(Iat(df, x[1], x[2]))), keywords, forbid))
        Best == { x \in Cells : \A y \in Cells : ScoreAt(y) <= ScoreAt(x) }
        First == CHOOSE x \in Best :
                    \A y \in Best : x[1] < y[1] \/ (x[1] = y[1] /\ x[2] <= y[2])
    IN IF Cells = {} THEN None
       ELSE IF ScoreAt(First) < 50 THEN None
       ELSE Some(First[1])

\* C24: _find_row raises nothing and returns the row of the first cell of
\* the highest score among the first 6 columns, the score being the best of
\* 100 (exact), 90 (prefix) and 60 (substring) over the keywords, less 40 for
\* each forbidden token in the cell; it returns no row when no cell matches
\* or the highest score is below 50.
C24_LocatorResult ==
    \A u \in results : u.op = "_find_row" =>
        /\ u.out.exc = NoExc
        /\ u.out.row = LocatorRow(u.sheets[1].df, _IS_KEYS(u.key), u.forbid)

\* gross profit looked up, with its forbidden tokens, in a sheet that has
\* the row: the lookup raised NameError
C24_LocatorRaised ==
    \E u \in results :
        /\ u.op = "_find_row" /\ u.key = "gross_profit" /\ u.forbid # <<>>
        /\ LocatorRow(u.sheets[1].df, _IS_KEYS(u.key), u.forbid) = Some(1)
        /\ u.out.exc = "NameError"

\* the figure the scanner is to return for the label at cell x = <<si, r, c>>
\* of the sheets: the first number among the 8 cells to its right, else the
\* first among the 8 cells below it; None when there is none
FigureNear(sheets, x) ==
    LET df == sheets[x[1]].df
        Right == { c \in (x[3] + 1) .. Min(NCols(df) - 1, x[3] + 8) : ~IsNone(_to_float(Iat(df, x[2], c))) }
        Below == { r \in (x[2] + 1) .. Min(NRows(df) - 1, x[2] + 8) : ~IsNone(_to_float(Iat(df, r, x[3]))) }
        At(r, c) == Some([num |-> _to_float(Iat(df, r, c)), anchor |-> Some(_a1(sheets[x[1]].name, r, c))])
    IN IF Right # {} THEN At(x[2], CHOOSE c \in Right : \A d \in Right : c <= d)
       ELSE IF Below # {} THEN At(CHOOSE r \in Below : \A d \in Below : r <= d, x[3])
       ELSE None

\* the label cells of the sheets for the variants, as <<si, r, c>>
ScanLabels(sheets, variants) ==
    { x \in UNION { { <<si, r, c>> : r \in Range(0, NRows(sheets[si].df)),
                                     c \in Range(0, NCols(sheets[si].df)) } :
                    si \in 1 .. Len(sheets) } :
        /\ ~IsNull(Iat(sheets[x[1]].df, x[2], x[3]))
        /\ LabelMatches(Iat(sheets[x[1]].df, x[2], x[3]), variants) }

\* x comes before y in the order sheet, row, column
ScanBefore(x, y) ==
    \/ x[1] < y[1]
    \/ x[1] = y[1] /\ x[2] < y[2]
    \/ x[1] = y[1] /\ x[2] = y[2] /\ x[3] <= y[3]

\* C28: the scan returns, for the first label in the order sheet, row,
\* column that has a figure, the first number among the 8 cells to its right
\* (columns c+1 to c+8), else the first number among the 8 cells below it
\* (rows r+1 to r+8), with the anchor of that cell; and nothing when no
\* label has a figure.
C28_ScanWindow ==
    \A u \in results : u.op = "_scan_kpi_by_keywords" =>
        LET With == { x \in ScanLabels(u.sheets, CashKeywords(u.key)) :
                        ~IsNone(FigureNear(u.sheets, x)) }
        IN IF With = {} THEN u.out = [num |-> None, anchor |-> None]
           ELSE u.out = Val(FigureNear(u.sheets, CHOOSE x \in With : \A y \in With : ScanBefore(x, y)))

\* a label whose only figure is the eighth cell to its right, and a scan
\* that returned nothing
C28_EighthCellMissed ==
    \E u \in results :
        /\ u.op = "_scan_kpi_by_keywords" /\ u.key = "DSO"
        /\ \E x \in ScanLabels(u.sheets, CashKeywords(u.key)) :
              /\ x[3] + 8 < NCols(u.sheets[x[1]].df)
              /\ ~IsNone(_to_float(Iat(u.sheets[x[1]].df, x[2], x[3] + 8)))
              /\ FigureNear(u.sheets, x) = Some([num |-> Some(45), anchor |-> Some(_a1(NameKPI, x[2], x[3] + 8))])
        /\ u.out = [num |-> None, anchor |-> None]

\* the value the sheet gave for key number k: that of the rightmost numeric
\* cell of the row located, None when no row was located or it has no number
ExtractedValue(u, k) == IF IsNone(u.rows[k]) THEN None ELSE OptQ(Val(u.nums[k]).curr)

\* the evidence entries of a derivation for the metric
DerivedEntries(u, metric) ==
    { i \in 1 .. Len(u.out.evidence) :
        u.out.evidence[i].metric = metric /\ ~IsNone(u.out.evidence[i].derived) }

\* the metrics of the key beyond the one the loop wrote
AddedMetrics(u, k) ==
    { i \in 1 .. Len(u.out.metrics) : i # k /\ u.out.metrics[i].key = IsKeyOrder[k] }

C26_MarginDerivation ==
    \A u \in results :
        LET rev == ExtractedValue(u, 1)
            gp == ExtractedValue(u, 2)
            gm == ExtractedValue(u, 5)
        IN IF IsNone(gm) /\ ~IsNone(rev) /\ ~IsNone(gp) /\ Val(rev).num # 0
           THEN /\ u.out.metrics[5].value = Some(Q(Val(gp).num * 100 * Val(rev).den,
                                                   Val(gp).den * Val(rev).num))
                /\ \E i \in DerivedEntries(u, "gross_margin") :
                      /\ u.out.evidence[i].derived = Some("gross_profit / revenue")
                      /\ u.out.evidence[i].current = u.out.metrics[5].value
                      /\ IsNone(u.out.evidence[i].anchor)
           ELSE /\ u.out.metrics[5].value = gm
                /\ DerivedEntries(u, "gross_margin") = {}

\* a margin derived from a revenue of 1200 and the gross profit of the sheet
C26_MarginDerived ==
    \E u \in results :
        /\ ExtractedValue(u, 1) = Some(QInt(1200)) /\ IsNone(ExtractedValue(u, 5))
        /\ ~IsNone(ExtractedValue(u, 2))
        /\ DerivedEntries(u, "gross_margin") # {}
        /\ ~IsNone(u.out.metrics[5].value)

WarmStat == Some([mtime |-> FileHistory[2].mtime, size |-> FileHistory[2].size])

\* C29: with the calls of analyze_file_cached made one after another, the
\* cache holds at most 8 entries, each under a key of its own.
C29_AtMostEight ==
    /\ Len(_ANALYSIS_CACHE) <= _ANALYSIS_CACHE_MAX
    /\ \A i, j \in 1 .. Len(_ANALYSIS_CACHE) :
          _ANALYSIS_CACHE[i].key = _ANALYSIS_CACHE[j].key => i = j

\* a ninth key stored: the cache is full, and two results computed for the
\* file written again are both in it
C29_NinthKeyStored ==
    /\ Len(_ANALYSIS_CACHE) = _ANALYSIS_CACHE_MAX
    /\ \E r1, r2 \in results :
          /\ r1.id # r2.id /\ ~r1.hit /\ ~r2.hit
          /\ r1.id[8] # WarmStat /\ r2.id[8] # WarmStat
          /\ \E i, j \in 1 .. Len(_ANALYSIS_CACHE) :
                _ANALYSIS_CACHE[i].by = r1.id /\ _ANALYSIS_CACHE[j].by = r2.id

\* C30: a call removes an entry from the cache only when the cache is full
\* and the key it stores is not in it, so that storing would exceed the bound;
\* the entry removed is one of least ts.
C30_EvictsOnlyWhenFull ==
    [][\A i \in 1 .. Len(_ANALYSIS_CACHE) :
          IsNone(CacheGet(_ANALYSIS_CACHE', _ANALYSIS_CACHE[i].key)) =>
              /\ Len(_ANALYSIS_CACHE) = _ANALYSIS_CACHE_MAX
              /\ IsNone(CacheGet(_ANALYSIS_CACHE, Val(call'["p1"].key)))
              /\ \A j \in 1 .. Len(_ANALYSIS_CACHE) :
                    _ANALYSIS_CACHE[i].ts <= _ANALYSIS_CACHE[j].ts]_vars

\* an entry lost to the refresh of another: of the seven entries and the one
\* stored for the file written again, seven are left
C30_EvictedOnRefresh ==
    /\ Len(_ANALYSIS_CACHE) < _ANALYSIS_CACHE_MAX
    /\ \E i \in 1 .. Len(_ANALYSIS_CACHE) :
          /\ _ANALYSIS_CACHE[i].by[8] # WarmStat
          /\ _ANALYSIS_CACHE[i].ts > 0

=============================================================================
